---------------------------- MODULE Spec2Model ----------------------------
(***************************************************************************)
(* Verification model of the Valorant Discord bot (src/index.js): the      *)
(* token-bucket rate gate, the TTL cache, the Riot API client with its     *)
(* 429 retry path, the cached endpoints and the command handlers.          *)
(*                                                                         *)
(* Time.  Every instant the program stores (lastRefill, a cache entry's    *)
(* expires, a timer's deadline) is kept RELATIVE TO THE PRESENT: Date.now()*)
(* reads Now (= 0), and the passage of d milliseconds (Tick) moves every   *)
(* stored instant d into the past.  The differences the code computes      *)
(* (now - lastRefill, Date.now() > v.expires) are exactly those of an      *)
(* absolute clock, and the state space stays finite while time is          *)
(* unbounded.  An instant so old that the code can no longer tell it from  *)
(* an older one is kept at a floor.                                        *)
(*                                                                         *)
(* Scheduling.  Node runs one handler at a time between suspension points  *)
(* (await): one action = one run-to-completion segment of one handler.     *)
(***************************************************************************)
EXTENDS Integers, Sequences, FiniteSets, TLC

\* ------------------------------------------------------------- constants
\* RATE_LIMIT.capacity
capacity == 20
\* RATE_LIMIT.refillMs
refillMs == 10000
\* the busy-poll backoff of takeToken: setTimeout(r, 500)
pollMs == 500
\* riotRequest(url, init = {}, retry = 2)
defaultRetry == 2

\* cache.set(key, value, ttlMs = 60_000)
defaultTtlMs == 60000
\* cache.set(key, data, 30_000) in getRecentMatchIdsByPuuid
matchlistTtlMs == 30000
\* cache.set(key, data, 60_000) in getMatch
matchTtlMs == 60000
\* cache.set(key, byName, 3_600_000) in getAgents and getMaps
staticTtlMs == 3600000

\* Date.now(), in the present-relative time scale
Now == 0

\* Amounts of time one Tick lets pass.  All durations of the program are
\* multiples of pollMs.
Steps == {pollMs}
\* Amounts of time one Jump lets pass (the scale of the cache's ttls).
Jumps == {10000, 30000}
\* Amounts of time one LongJump lets pass (the scale of the rosters' ttl).
LongJumps == {1800000}

\* JSON null, which is also what TTLCache.get returns for "absent"
null == [t |-> "null"]

\* match routing shards, player ids and match ids
Shards == {"eu", "na"}
Puuids == {"u1"}
MatchIds == {"m1", "m2"}

\* `matchlist:${shard}:${puuid}`
matchlistKey(shard, puuid) == "matchlist:" \o shard \o ":" \o puuid
\* `match:${shard}:${matchId}`
matchKey_noShard(shard, matchId) == "match:" \o matchId
matchKey(shard, matchId) == "match:" \o shard \o ":" \o matchId

\* The handlers in flight (concurrent interactions).
Procs == {"p1", "p2"}

Max(a, b) == IF a >= b THEN a ELSE b
Min(a, b) == IF a <= b THEN a ELSE b

VARIABLES
  tokens,       \* let tokens
  lastRefill,   \* let lastRefill (present-relative, <= Now)
  taken,        \* ghost: takeToken calls returned since the last refill
  pc,           \* per handler: where it is suspended
  stk,          \* per handler: continuations of the calls it is inside
  wakeAt,       \* per handler: deadline of its pending setTimeout
  cache,        \* cache.map: key -> [value, expires], its domain the keys present
  shadow,       \* ghost: key -> [value, expires] of the last direct set(key)
  lastOp,       \* ghost: the last direct call of a TTLCache method and its result
  cnt,          \* ghost, per handler, since its current call began: tokens
                \* taken, Riot requests sent, 429s received, static requests sent
  rr,           \* per handler: the riotRequest call it is inside (url, retry, res)
  result,       \* per handler: outcome of its last finished call (value or throw)
  api,          \* per handler: arguments of the endpoint function it is inside
  fetched,      \* ghost: <<endpoint, shard, id>> -> the response last stored for
                \* it and the instant it was stored at
  LINKS,        \* Discord user id -> Link
  ia,           \* per handler: the interaction it handles, its locals and the
                \* replies it has issued
  seen,         \* the number of interactions received so far
  disk,         \* links.json as it was last written
  window        \* ghost: the age of an observed time window and the
                \* number of takeToken calls that returned in it

gateVars == <<tokens, lastRefill, taken, window>>
procVars == <<pc, stk, wakeAt>>
cacheVars == <<cache, shadow, lastOp>>
riotVars == <<rr, result>>
apiVars == <<api, fetched>>
linkVars == <<LINKS, disk>>
cmdVars == <<LINKS, disk, ia, seen>>
vars == <<tokens, lastRefill, taken, pc, stk, wakeAt, cache, shadow, lastOp,
          cnt, rr, result, api, fetched, LINKS, ia, seen, disk,
          window>>

\* lastRefill older than this is indistinguishable: delta > refillMs either way
RefillFloor == Now - (refillMs + pollMs)
\* an expires older than this is indistinguishable: Date.now() > expires
ExpiresFloor == Now - pollMs
\* a store older than this is older than every ttl of the match endpoints
StoredFloor == Now - (matchTtlMs + pollMs)

\* the empty Map
EmptyMap == [k \in {} |-> null]

\* no riotRequest call yet
NoRes == [status |-> 0, retryAfter |-> "", body |-> null]
NoCall == [url |-> "", retry |-> 0, res |-> NoRes]
\* no endpoint function entered
\* (src, used: ghost, where the endpoint took its response from)
NoArgs == [shard |-> "", id |-> "", start |-> 0, count |-> 0,
           src |-> "none", used |-> null]
\* no interaction received
NoInteraction == [commandName |-> "", user |-> "", options |-> null,
                  link |-> null, account |-> null, match |-> null,
                  ids |-> <<>>, matches |-> <<>>, replies |-> <<>>,
                  logged |-> <<>>, shard |-> "", region |-> "",
                  static |-> null, filter |-> "", display |-> "",
                  n |-> 0, shard0 |-> "", rejected |-> <<>>]
\* the ghost counts at the start of a call
NoCount == [took |-> 0, sent |-> 0, n429 |-> 0, ssent |-> 0]
\* no call finished yet
NoResult == [ok |-> TRUE, status |-> 0, data |-> null]

\* no time window is observed; a window is open while its age is below
\* refillMs
NoWindow == [age |-> -1, n |-> 0]
WindowOpen == window.age >= 0 /\ window.age < refillMs

\* the state after start-up, links being the content of links.json
\* (LINKS = loadJson(DB_PATH, {}))
Started(links) ==
  /\ tokens = capacity
  /\ lastRefill = Now
  /\ taken = 0
  /\ pc = [p \in Procs |-> "idle"]
  /\ stk = [p \in Procs |-> <<>>]
  /\ wakeAt = [p \in Procs |-> Now]
  /\ cache = EmptyMap
  /\ shadow = EmptyMap
  /\ lastOp = [op |-> "none", key |-> "", ret |-> null, n |-> 0]
  /\ cnt = [p \in Procs |-> NoCount]
  /\ rr = [p \in Procs |-> NoCall]
  /\ result = [p \in Procs |-> NoResult]
  /\ api = [p \in Procs |-> NoArgs]
  /\ fetched = EmptyMap
  /\ LINKS = links
  /\ disk = links
  /\ ia = [p \in Procs |-> NoInteraction]
  /\ seen = 0
  /\ window = NoWindow

\* the first start: there is no links.json
Init == Started(EmptyMap)

\* ------------------------------------------------------------------ time
Age(m, d) ==
  [k \in DOMAIN m |-> [m[k] EXCEPT !.expires = Max(m[k].expires - d, ExpiresFloor)]]

Advance(d) ==
  /\ lastRefill' = Max(lastRefill - d, RefillFloor)
  /\ wakeAt' = [p \in Procs |-> Max(wakeAt[p] - d, Now)]
  /\ cache' = Age(cache, d)
  /\ shadow' = Age(shadow, d)
  /\ fetched' = [k \in DOMAIN fetched |->
                   [fetched[k] EXCEPT !.at = Max(fetched[k].at - d, StoredFloor)]]
  /\ window' = IF WindowOpen THEN [window EXCEPT !.age = Min(@ + d, refillMs)]
                             ELSE window
  /\ UNCHANGED <<tokens, taken, pc, stk, lastOp, cnt, riotVars, api, cmdVars>>

Tick == \E d \in Steps : Advance(d)

Jump == \E d \in Jumps : Advance(d)

LongJump == \E d \in LongJumps : Advance(d)

\* ------------------------------------------------------------- rate gate
\* return from the current call to the continuation on top of stk
Return(p) ==
  /\ pc' = [pc EXCEPT ![p] = IF stk[p] = <<>> THEN "idle" ELSE Head(stk[p])]
  /\ stk' = [stk EXCEPT ![p] = IF stk[p] = <<>> THEN <<>> ELSE Tail(stk[p])]

\* if (delta > RATE_LIMIT.refillMs)
RefillDue_ge(delta) == delta >= refillMs
RefillDue_never(delta) == FALSE
RefillDue(delta) == delta > refillMs

\* if (tokens <= 0)
Exhausted_lt(t) == t < 0
Exhausted(t) == t <= 0

\* async function takeToken(): one pass of its body, at entry or when the
\* 500 ms timer of the previous pass has fired
takeToken(p) ==
  /\ pc[p] = "takeToken"
  /\ wakeAt[p] <= Now
  /\ LET delta == Now - lastRefill
         refill == RefillDue(delta)
         t == IF refill THEN capacity ELSE tokens
     IN /\ lastRefill' = IF refill THEN Now ELSE lastRefill
        /\ IF Exhausted(t)
             THEN /\ tokens' = t
                  /\ taken' = IF refill THEN 0 ELSE taken
                  /\ UNCHANGED window
                  /\ wakeAt' = [wakeAt EXCEPT ![p] = Now + pollMs]
                  /\ UNCHANGED <<pc, stk, cnt>>
             ELSE /\ tokens' = t - 1
                  /\ taken' = (IF refill THEN 0 ELSE taken) + 1
                  /\ window' = IF WindowOpen THEN [window EXCEPT !.n = @ + 1]
                                             ELSE window
                  /\ cnt' = [cnt EXCEPT ![p].took = @ + 1]
                  /\ Return(p)
                  /\ UNCHANGED wakeAt
        /\ UNCHANGED <<cacheVars, riotVars, apiVars, cmdVars>>

\* a caller invokes takeToken()
CallTakeToken(p) ==
  /\ pc[p] = "idle"
  /\ pc' = [pc EXCEPT ![p] = "takeToken"]
  /\ cnt' = [cnt EXCEPT ![p] = NoCount]
  /\ UNCHANGED <<gateVars, stk, wakeAt, cacheVars, riotVars, apiVars, cmdVars>>

NextGate == Tick \/ \E p \in Procs : CallTakeToken(p) \/ takeToken(p)

SpecGate == Init /\ [][NextGate]_vars

\* C1: between two consecutive refills of the bucket at most capacity
\* takeToken calls return, all callers counted together.
C1_AtMostCapacityPerRefill == taken <= capacity

\* C1 witness: capacity calls have returned since the last refill and a
\* further caller is suspended in takeToken.
C1_Witness ==
  /\ taken = capacity
  /\ \E p \in Procs : pc[p] = "takeToken" /\ wakeAt[p] > Now

\* C2: once capacity calls have returned since the last refill, a further
\* takeToken call does not return while no more than refillMs has elapsed
\* since the last refill; a pass of its body in that time takes no token
\* and only arms the 500 ms timer.
C2_BlockedUntilRefill ==
  [][\A p \in Procs :
       (pc[p] = "takeToken" /\ taken = capacity /\ Now - lastRefill <= refillMs)
         => /\ pc'[p] = "takeToken"
            /\ tokens' = tokens
            /\ taken' = taken
            /\ wakeAt'[p] > wakeAt[p] => wakeAt'[p] = Now + pollMs]_vars

\* C2 witness: the bucket is spent, exactly refillMs has elapsed since the
\* last refill, and a caller that polled at this instant sleeps again.
C2_Witness ==
  /\ taken = capacity
  /\ lastRefill = Now - refillMs
  /\ \E p \in Procs : pc[p] = "takeToken" /\ wakeAt[p] = Now + pollMs

\* ------------------------------------------------------------- TTL cache
\* Map.prototype.set
MapSet(m, key, e) == [k \in DOMAIN m \cup {key} |-> IF k = key THEN e ELSE m[k]]
\* Map.prototype.delete
MapDelete(m, key) == [k \in DOMAIN m \ {key} |-> m[k]]

\* if (Date.now() > v.expires)
Expired_ge(e) == Now >= e.expires
Expired(e) == Now > e.expires

\* TTLCache.get(key): the value it returns
TTLCache_get(m, key) ==
  IF key \notin DOMAIN m THEN null
  ELSE IF Expired(m[key]) THEN null
  ELSE m[key].value

\* TTLCache.get(key): this.map after the call
TTLCache_get_sweep(m, key) ==
  [k \in {k2 \in DOMAIN m : ~Expired(m[k2])} |-> m[k]]
TTLCache_get_map(m, key) ==
  IF key \notin DOMAIN m THEN m
  ELSE IF Expired(m[key]) THEN MapDelete(m, key)
  ELSE m

\* TTLCache.set(key, value, ttlMs): this.map after the call
TTLCache_set(m, key, value, ttlMs) ==
  MapSet(m, key, [value |-> value, expires |-> Now + ttlMs])

\* the values and keys the direct calls are made with
CacheValues == {null, [t |-> "obj", id |-> "a"], [t |-> "obj", id |-> "b"]}
CacheKeys == {matchlistKey("eu", "u1"), matchKey("eu", "m1")}
CacheTtls == {matchlistTtlMs, defaultTtlMs}

\* a direct call cache.set(key, value, ttlMs)
CacheSet(key, value, ttlMs) ==
  /\ cache' = TTLCache_set(cache, key, value, ttlMs)
  /\ shadow' = MapSet(shadow, key, [value |-> value, expires |-> Now + ttlMs])
  /\ lastOp' = [op |-> "set", key |-> key, ret |-> null, n |-> 1 - lastOp.n]
  /\ UNCHANGED <<gateVars, procVars, cnt, riotVars, apiVars, cmdVars>>

\* a direct call cache.get(key)
CacheGet(key) ==
  /\ cache' = TTLCache_get_map(cache, key)
  /\ lastOp' = [op |-> "get", key |-> key, ret |-> TTLCache_get(cache, key),
                n |-> 1 - lastOp.n]
  /\ UNCHANGED <<gateVars, procVars, shadow, cnt, riotVars, apiVars, cmdVars>>

NextCache ==
  \/ Jump
  \/ \E k \in CacheKeys, v \in CacheValues, ttl \in CacheTtls : CacheSet(k, v, ttl)
  \/ \E k \in CacheKeys : CacheGet(k)

SpecCache == Init /\ [][NextCache]_vars

\* C6: a get(k) after set(k, v, ttl), with no later set(k), returns v while
\* the clock has not passed the set's instant + ttl, and returns absent
\* (null) once it has.
C6_GetAfterSet ==
  [][(lastOp' # lastOp /\ lastOp'.op = "get" /\ lastOp'.key \in DOMAIN shadow)
       => lastOp'.ret = IF Now > shadow[lastOp'.key].expires
                          THEN null
                          ELSE shadow[lastOp'.key].value]_vars

\* C6 witness: a get at the very instant set-time + ttl that still returned
\* the value, a non-null one.
C6_Witness ==
  /\ lastOp.op = "get"
  /\ lastOp.key \in DOMAIN shadow
  /\ shadow[lastOp.key].expires = Now
  /\ lastOp.ret = shadow[lastOp.key].value
  /\ lastOp.ret # null

\* C6 witness of the other case: a get after the ttl elapsed returned absent
\* although a non-null value had been set.
C6_WitnessExpired ==
  /\ lastOp.op = "get"
  /\ lastOp.key \in DOMAIN shadow
  /\ shadow[lastOp.key].expires < Now
  /\ shadow[lastOp.key].value # null
  /\ lastOp.ret = null

\* C7: a get(k) that finds an expired entry removes exactly that entry and
\* returns absent; a get that returns a value or finds no entry leaves the
\* map unchanged; no entry is removed in any other way.
C7_LazyExpiryOnly ==
  [][/\ \A k \in DOMAIN cache :
          k \notin DOMAIN cache'
            => /\ lastOp' # lastOp /\ lastOp'.op = "get" /\ lastOp'.key = k
               /\ Now > cache[k].expires
               /\ lastOp'.ret = null
               /\ cache' = [j \in DOMAIN cache \ {k} |-> cache[j]]
     /\ (lastOp' # lastOp /\ lastOp'.op = "get")
          => IF lastOp'.key \in DOMAIN cache /\ Now > cache[lastOp'.key].expires
               THEN lastOp'.key \notin DOMAIN cache'
               ELSE cache' = cache]_vars

\* C7 witness: a get has just removed an expired entry while another entry,
\* itself expired but not read, stays in the map.
C7_Witness ==
  /\ lastOp.op = "get"
  /\ lastOp.key \in DOMAIN shadow
  /\ lastOp.key \notin DOMAIN cache
  /\ \E k \in DOMAIN cache : Now > cache[k].expires

\* ------------------------------------------------------- Riot API client
\* riotBases(region, shard).match
matchBase(shard) == "https://" \o shard \o ".api.riotgames.com/val/match/v1"
\* riotBases(region, shard).account
accountBase(region) == "https://" \o region \o ".api.riotgames.com/riot/account/v1"
\* `${match}/matches/${matchId}`
matchUrl(shard, matchId) == matchBase(shard) \o "/matches/" \o matchId
\* `${match}/matchlists/by-puuid/${puuid}`
matchlistUrl(shard, puuid) == matchBase(shard) \o "/matchlists/by-puuid/" \o puuid

\* encodeURIComponent on the names in use: letters and digits are kept, a
\* space becomes %20
encodeURIComponent(str) ==
  CASE str = "Nick" -> "Nick"
    [] str = "TAG" -> "TAG"
    [] str = "Ni ck" -> "Ni%20ck"
    [] OTHER -> str
\* getAccountByRiotId line 122
accountUrl(region, gameName, tagLine) ==
  accountBase(region) \o "/accounts/by-riot-id/"
    \o encodeURIComponent(gameName) \o "/" \o encodeURIComponent(tagLine)
\* the account routing regions and the accounts the account API knows
Regions == {"europe", "americas"}
Accounts == {[t |-> "obj", puuid |-> "u1", gameName |-> "Nick", tagLine |-> "TAG"]}

\* res.headers.get('Retry-After'): null when the header is absent
NoHeader == "(null)"
RetryAfterHeaders == {NoHeader, "2"}
\* Number(string) on the header values
Number(str) == CASE str = "0" -> 0 [] str = "1" -> 1 [] str = "2" -> 2
\* Number(res.headers.get('Retry-After') || 1) * 1000
retryAfterMs_zero(h) == (IF h = NoHeader \/ h = "" THEN 0 ELSE Number(h)) * 1000
retryAfterMs(h) == (IF h = NoHeader \/ h = "" THEN 1 ELSE Number(h)) * 1000

\* what fetch() yields: a response with a status, or a rejection (status 0:
\* network error)
HttpOk(body) == [status |-> 200, retryAfter |-> NoHeader, body |-> body]
Http429(h) == [status |-> 429, retryAfter |-> h, body |-> null]
HttpError == [status |-> 500, retryAfter |-> NoHeader, body |-> null]
NetError == [status |-> 0, retryAfter |-> NoHeader, body |-> null]
\* res.ok
ResOk(res) == res.status >= 200 /\ res.status <= 299

\* a Match Record as the API returns it (two revisions, to tell a stored
\* record from a fresh one)
MatchRecord(matchId, rev) == [t |-> "obj", matchId |-> matchId, rev |-> rev]

\* the JSON bodies the service may answer a url with
\* the match-id lists the API may answer: JSON null, an object without a
\* history, an empty history, a history of two matches
MatchlistJson ==
  {null,
   [t |-> "obj"],
   [t |-> "obj", history |-> <<>>],
   [t |-> "obj", history |-> <<[matchId |-> "m1"], [matchId |-> "m2"]>>]}

Bodies(url) ==
  IF \E sh \in Shards, id \in MatchIds : url = matchUrl(sh, id)
    THEN {null} \cup
         {MatchRecord(id, rev) : id \in {i \in MatchIds :
                                   \E sh \in Shards : url = matchUrl(sh, i)},
                                 rev \in {1, 2}}
  ELSE IF \E sh \in Shards, u \in Puuids : url = matchlistUrl(sh, u)
    THEN MatchlistJson
  ELSE IF \E rg \in Regions, a \in Accounts :
            url = accountUrl(rg, a.gameName, a.tagLine)
    THEN {a \in Accounts : \E rg \in Regions :
                             url = accountUrl(rg, a.gameName, a.tagLine)}
    ELSE {null}

Responses(url) ==
  {HttpOk(b) : b \in Bodies(url)} \cup {Http429(h) : h \in RetryAfterHeaders}
    \cup {HttpError, NetError}

\* the call ends: its promise resolves (ok) or rejects, its locals are gone,
\* and the awaiting caller continues
Finish(p, r) ==
  /\ result' = [result EXCEPT ![p] = r]
  /\ rr' = [rr EXCEPT ![p] = NoCall]
  /\ Return(p)

\* throw new Error(`Riot ${res.status}: ...`), or fetch's own rejection
\* (status 0)
Failure(status) == [ok |-> FALSE, status |-> status, data |-> null]
\* return res.json()
Success(data) == [ok |-> TRUE, status |-> 200, data |-> data]

\* if (res.status === 429 && retry > 0)
ShouldRetry_always(res, retry) == res.status = 429
ShouldRetry_any(res, retry) == ~ResOk(res) /\ retry > 0
ShouldRetry(res, retry) == res.status = 429 /\ retry > 0

\* riotRequest(url, init, retry), line 99: await takeToken()
\* (cont: where the caller continues when the call has ended)
riotRequest_noToken(p, url, retry, cont) ==
  /\ rr' = [rr EXCEPT ![p] = [url |-> url, retry |-> retry, res |-> NoRes]]
  /\ pc' = [pc EXCEPT ![p] = "fetch"]
  /\ stk' = [stk EXCEPT ![p] = cont \o @]
riotRequest(p, url, retry, cont) ==
  /\ rr' = [rr EXCEPT ![p] = [url |-> url, retry |-> retry, res |-> NoRes]]
  /\ pc' = [pc EXCEPT ![p] = "takeToken"]
  /\ stk' = [stk EXCEPT ![p] = <<"fetch">> \o cont \o @]

\* riotRequest lines 100-101: the token is taken, the request is sent
fetch(p) ==
  /\ pc[p] = "fetch"
  /\ cnt' = [cnt EXCEPT ![p].sent = @ + 1]
  /\ pc' = [pc EXCEPT ![p] = "response"]
  /\ UNCHANGED <<gateVars, cacheVars, stk, wakeAt, riotVars, apiVars, cmdVars>>

\* riotRequest lines 101-108: fetch settles with res
Respond(p, res) ==
  /\ pc[p] = "response"
  /\ cnt' = [cnt EXCEPT ![p].n429 = @ + (IF res.status = 429 THEN 1 ELSE 0)]
  /\ IF res.status = 0
       THEN /\ Finish(p, Failure(0))
            /\ UNCHANGED wakeAt
       ELSE IF ShouldRetry(res, rr[p].retry)
         THEN /\ wakeAt' = [wakeAt EXCEPT ![p] = Now + retryAfterMs(res.retryAfter)]
              /\ pc' = [pc EXCEPT ![p] = "retryWait"]
              /\ rr' = [rr EXCEPT ![p].res = res]
              /\ UNCHANGED <<stk, result>>
         ELSE /\ IF ~ResOk(res)
                   THEN Finish(p, Failure(res.status))
                   ELSE Finish(p, Success(res.body))
              /\ UNCHANGED wakeAt
  /\ UNCHANGED <<gateVars, cacheVars, apiVars, cmdVars>>

\* riotRequest line 105: the Retry-After timer has fired,
\* return riotRequest(url, init, retry - 1)
retryWait(p) ==
  /\ pc[p] = "retryWait"
  /\ wakeAt[p] <= Now
  /\ riotRequest(p, rr[p].url, rr[p].retry - 1, <<>>)
  /\ UNCHANGED <<gateVars, cacheVars, wakeAt, cnt, result, apiVars, cmdVars>>

\* the steps of a riotRequest call in flight
RiotStep(p) ==
  \/ takeToken(p)
  \/ fetch(p)
  \/ \E res \in Responses(rr[p].url) : Respond(p, res)
  \/ retryWait(p)

\* a caller invokes riotRequest(url) with the default retry budget
RiotUrls == {matchUrl("eu", "m1")}
CallRiotRequest(p, url) ==
  /\ pc[p] = "idle"
  /\ riotRequest(p, url, defaultRetry, <<>>)
  /\ cnt' = [cnt EXCEPT ![p] = NoCount]
  /\ result' = [result EXCEPT ![p] = NoResult]
  /\ UNCHANGED <<gateVars, cacheVars, wakeAt, apiVars, cmdVars>>

\* one caller at a time, calling again and again
RiotProcs == {"p1"}
NextRiot ==
  \/ Tick
  \/ \E p \in RiotProcs : \E url \in RiotUrls : CallRiotRequest(p, url)
  \/ \E p \in RiotProcs : RiotStep(p)

SpecRiot == Init /\ [][NextRiot]_vars

\* time passes, timers fire, the handler runs when it can and every request
\* is eventually answered
FairRiot ==
  SpecRiot /\ WF_vars(Tick) /\ \A p \in RiotProcs : WF_vars(RiotStep(p))

\* the wait a 429 response advertises: its Retry-After in seconds, 1 second
\* when the header is absent
C4_Advertised(res) ==
  IF res.retryAfter = NoHeader THEN 1000
  ELSE CASE res.retryAfter = "0" -> 0 [] res.retryAfter = "2" -> 2000

\* C4: a riotRequest call with the default budget sends at most 3 requests;
\* a 429 while retries remain is followed by a wait of the advertised
\* Retry-After (1 s when absent) and then one more attempt; a 429 on the
\* third attempt ends the call with a failure carrying status 429; and the
\* call always ends.
C4_RetryBudget ==
  /\ [](\A p \in RiotProcs :
          /\ cnt[p].sent <= 3
          /\ (~result[p].ok /\ result[p].status = 429) => cnt[p].sent = 3)
  /\ [][\A p \in RiotProcs :
          /\ (pc[p] = "response" /\ pc'[p] = "retryWait")
               => /\ rr'[p].res.status = 429
                  /\ cnt[p].sent < 3
                  /\ wakeAt'[p] = Now + C4_Advertised(rr'[p].res)
          /\ (pc[p] = "retryWait" /\ pc'[p] # "retryWait")
               => /\ wakeAt[p] <= Now
                  /\ pc'[p] = "takeToken"
          /\ (pc[p] = "response" /\ cnt'[p].n429 > cnt[p].n429)
               => IF cnt[p].sent < 3
                    THEN pc'[p] = "retryWait"
                    ELSE pc'[p] = "idle" /\ result'[p] = Failure(429)]_vars
  /\ \A p \in RiotProcs : (pc[p] # "idle") ~> (pc[p] = "idle")

\* C4 witness: a call has ended with the 429 failure after three requests,
\* each answered 429.
C4_Witness ==
  \E p \in RiotProcs :
    /\ pc[p] = "idle"
    /\ result[p] = Failure(429)
    /\ cnt[p].sent = 3 /\ cnt[p].n429 = 3 /\ cnt[p].took = 3

\* ------------------------------------------------------ static rosters
\* String.prototype.toLowerCase on the names in use
toLowerCase(str) ==
  CASE str = "Jett" -> "jett" [] str = "Sova" -> "sova"
    [] str = "Ascent" -> "ascent" [] str = "Bind" -> "bind"
    [] str = "Duality" -> "duality" [] str = "JETT" -> "jett"
    [] str = "A1" -> "a1" [] str = "A2" -> "a2"
    [] OTHER -> str
\* (m.mapUrl || '').split('/').pop() on the map urls in use
urlTail(mapUrl) ==
  CASE mapUrl = "/Game/Maps/Ascent/Ascent" -> "Ascent"
    [] mapUrl = "/Game/Maps/Duality/Duality" -> "Duality"
    [] OTHER -> mapUrl

\* what valorant-api.com answers: { data: [...] }, or an object without data
AgentsJson ==
  {[t |-> "obj", data |-> <<[uuid |-> "A1", displayName |-> "Jett"],
                           [uuid |-> "A2", displayName |-> "Sova"]>>],
   [t |-> "obj"]}
MapsJson ==
  {[t |-> "obj", data |-> <<[mapUrl |-> "/Game/Maps/Ascent/Ascent", displayName |-> "Ascent"],
                           [mapUrl |-> "/Game/Maps/Duality/Duality", displayName |-> "Bind"]>>],
   [t |-> "obj"]}
StaticResponses(json) == {HttpOk(b) : b \in json} \cup {HttpError, NetError}

\* data.data || []
DataOf(json) == IF "data" \in DOMAIN json THEN json.data ELSE <<>>
\* a JS Map built by set(keys[i], list[i]) for i = 1, 2, ...: the last set
\* of a key wins
MapOf(list, keys) ==
  [t |-> "Map",
   m |-> [k \in {keys[i] : i \in DOMAIN list} |->
            list[CHOOSE i \in DOMAIN list :
                   /\ keys[i] = k
                   /\ \A j \in DOMAIN list : keys[j] = k => j <= i]]]
\* getAgents: byName
byName(json) ==
  MapOf(DataOf(json),
        [i \in DOMAIN DataOf(json) |-> toLowerCase(DataOf(json)[i].displayName)])
\* getMaps: byUrlTail
byUrlTail(json) ==
  MapOf(DataOf(json),
        [i \in DOMAIN DataOf(json) |-> toLowerCase(urlTail(DataOf(json)[i].mapUrl))])

\* if (c) return c, on the values the cache holds: objects and Maps are
\* truthy, null is not
Truthy(v) == v # null

\* getAgents / getMaps up to the await: const c = cache.get(key);
\* if (c) return c; const res = await fetch(...)
staticLookup_viaGate(p, key, awaiting) ==
  /\ cache' = TTLCache_get_map(cache, key)
  /\ IF Truthy(TTLCache_get(cache, key))
       THEN /\ Finish(p, Success(TTLCache_get(cache, key)))
            /\ UNCHANGED <<gateVars, cnt>>
       ELSE /\ tokens' = tokens - 1
            /\ cnt' = [cnt EXCEPT ![p].ssent = @ + 1, ![p].took = @ + 1]
            /\ pc' = [pc EXCEPT ![p] = awaiting]
            /\ UNCHANGED <<lastRefill, taken, window, stk, riotVars>>
  /\ UNCHANGED <<shadow, lastOp, wakeAt, apiVars, cmdVars>>
staticLookup(p, key, awaiting) ==
  /\ cache' = TTLCache_get_map(cache, key)
  /\ IF Truthy(TTLCache_get(cache, key))
       THEN /\ Finish(p, Success(TTLCache_get(cache, key)))
            /\ UNCHANGED cnt
       ELSE /\ cnt' = [cnt EXCEPT ![p].ssent = @ + 1]
            /\ pc' = [pc EXCEPT ![p] = awaiting]
            /\ UNCHANGED <<stk, riotVars>>
  /\ UNCHANGED <<gateVars, shadow, lastOp, wakeAt, apiVars, cmdVars>>

\* getAgents / getMaps after the await: if (!res.ok) throw ...;
\* cache.set(key, built, 3_600_000); return built
staticSettle(p, key, res, built) ==
  /\ IF res.status = 0 \/ ~ResOk(res)
       THEN /\ Finish(p, Failure(res.status))
            /\ UNCHANGED cache
       ELSE /\ Finish(p, Success(built))
            /\ cache' = TTLCache_set(cache, key, built, staticTtlMs)
  /\ UNCHANGED <<gateVars, shadow, lastOp, wakeAt, cnt, apiVars, cmdVars>>

\* async function getAgents()
getAgents(p) ==
  \/ /\ pc[p] = "getAgents"
     /\ staticLookup(p, "static:agents", "agentsResponse")
  \/ /\ pc[p] = "agentsResponse"
     /\ \E res \in StaticResponses(AgentsJson) :
          staticSettle(p, "static:agents", res, byName(res.body))

\* async function getMaps()
getMaps(p) ==
  \/ /\ pc[p] = "getMaps"
     /\ staticLookup(p, "static:maps", "mapsResponse")
  \/ /\ pc[p] = "mapsResponse"
     /\ \E res \in StaticResponses(MapsJson) :
          staticSettle(p, "static:maps", res, byUrlTail(res.body))

\* a caller invokes getAgents() or getMaps()
CallStatic(p, fn) ==
  /\ pc[p] = "idle"
  /\ pc' = [pc EXCEPT ![p] = fn]
  /\ cnt' = [cnt EXCEPT ![p] = NoCount]
  /\ result' = [result EXCEPT ![p] = NoResult]
  /\ UNCHANGED <<gateVars, cacheVars, stk, wakeAt, rr, apiVars, cmdVars>>

\* the Remote API Client: one handler's Riot calls interleaved with another
\* handler's roster calls
ClientRiotProcs == {"p1"}
ClientStaticProcs == {"p2"}
NextClient ==
  \/ LongJump
  \/ \E p \in ClientRiotProcs : \E url \in RiotUrls : CallRiotRequest(p, url)
  \/ \E p \in ClientStaticProcs : \E fn \in {"getAgents", "getMaps"} : CallStatic(p, fn)
  \/ \E p \in Procs : RiotStep(p) \/ getAgents(p) \/ getMaps(p)

SpecClient == Init /\ [][NextClient]_vars

\* C3: every request riotRequest sends, each retry after a 429 included, is
\* preceded by its own completed takeToken call, so that requests sent never
\* exceed tokens consumed; the roster requests of getAgents and getMaps
\* consume no token.
C3_TokenPerRequest ==
  /\ [](\A p \in Procs :
          /\ cnt[p].sent <= cnt[p].took
          /\ cnt[p].ssent > 0 => cnt[p].took = 0)
  /\ [][\A p \in Procs :
          /\ cnt'[p].sent # cnt[p].sent /\ cnt'[p].sent # 0
               => /\ cnt'[p].sent = cnt[p].sent + 1
                  /\ cnt[p].took = cnt[p].sent + 1
          /\ cnt'[p].ssent > cnt[p].ssent
               => tokens' = tokens /\ taken' = taken]_vars

\* C3 witness: a third request is in flight after two 429 retries, three
\* tokens consumed by the call, while the other handler has a roster request
\* in flight that consumed none.
C3_Witness ==
  \E p, q \in Procs :
    /\ pc[p] = "response" /\ cnt[p].sent = 3 /\ cnt[p].took = 3
    /\ pc[q] \in {"agentsResponse", "mapsResponse"}
    /\ cnt[q].ssent = 1 /\ cnt[q].took = 0

\* C5: a non-success response other than 429, and a network error, end the
\* riotRequest call with a failure at once: a request is re-sent only after
\* a 429, and a failed roster request is not re-sent either.
C5_NoRetryButOn429 ==
  /\ [](\A p \in Procs :
          /\ cnt[p].sent <= cnt[p].n429 + 1
          /\ cnt[p].ssent <= 1)
  /\ [][\A p \in Procs :
          /\ (pc[p] = "response" /\ pc'[p] # "response"
                /\ cnt'[p].n429 = cnt[p].n429)
               => /\ pc'[p] = "idle"
                  /\ cnt'[p].sent = cnt[p].sent
                  /\ result'[p].ok \/ result'[p].status \in {0, 500}
          /\ (pc[p] \in {"agentsResponse", "mapsResponse"} /\ pc'[p] # pc[p])
               => /\ pc'[p] = "idle"
                  /\ cnt'[p].ssent = cnt[p].ssent]_vars

\* C5 witness: a call whose first request was answered 429 and whose second
\* was answered 500 has ended with that failure, two requests sent, while a
\* roster call has failed after its single request.
C5_Witness ==
  \E p, q \in Procs :
    /\ pc[p] = "idle" /\ result[p] = Failure(500)
    /\ cnt[p].sent = 2 /\ cnt[p].n429 = 1
    /\ pc[q] = "idle" /\ result[q] = Failure(0) /\ cnt[q].ssent = 1

--------------------------------------------------------------------------
(* The cached endpoints: getMatch (lines 136-144) and
   getRecentMatchIdsByPuuid (lines 126-134).  Each is entered with its
   arguments in api[p], reads the cache in its first step and, on a miss,
   awaits riotRequest and continues in a second step. *)

\* a JS array returned to the caller
List(items) == [t |-> "list", items |-> items]

\* Array.prototype.slice(start, end) for 0 <= start <= end
slice(arr, start, end) == SubSeq(arr, start + 1, Min(end, Len(arr)))

\* .map(h => h.matchId)
matchIdsOf(arr) == [i \in DOMAIN arr |-> arr[i].matchId]

\* cached.history and data?.history: is there an array to slice
HasHistory(data) == "history" \in DOMAIN data

\* a TypeError thrown by a property read of undefined
TypeError == [ok |-> FALSE, status |-> -1, data |-> null]

\* line 130: cached.history.slice(start, start + count).map(h => h.matchId)
idsFromCached(cached, start, count) ==
  IF HasHistory(cached)
    THEN Success(List(matchIdsOf(slice(cached.history, start, start + count))))
    ELSE TypeError

\* line 133: (data?.history || []).slice(start, start + count).map(...)
idsFromData(data, start, count) ==
  Success(List(matchIdsOf(slice(IF HasHistory(data) THEN data.history ELSE <<>>,
                                start, start + count))))

\* ghost: the response stored for <<endpoint, shard, id>>, stored now
Stored(m, fn, shard, id, data) ==
  MapSet(m, <<fn, shard, id>>, [value |-> data, at |-> Now])

\* getMatch lines 137-141: the cache lookup, then the return or the request
getMatchLookup(p) ==
  /\ pc[p] = "getMatch"
  /\ LET key == matchKey(api[p].shard, api[p].id)
         c == TTLCache_get(cache, key)
     IN /\ cache' = TTLCache_get_map(cache, key)
        /\ IF Truthy(c)
             THEN /\ Finish(p, Success(c))
                  /\ api' = [api EXCEPT ![p].src = "cache", ![p].used = c]
                  /\ UNCHANGED gateVars
             ELSE /\ riotRequest(p, matchUrl(api[p].shard, api[p].id),
                                 defaultRetry, <<"getMatchStore">>)
                  /\ UNCHANGED <<gateVars, result, api>>
  /\ UNCHANGED <<shadow, lastOp, wakeAt, cnt, fetched, cmdVars>>

\* getMatch lines 141-143: after the await, store and return; a throw of
\* riotRequest leaves the function before the store
getMatchStore(p) ==
  /\ pc[p] = "getMatchStore"
  /\ IF result[p].ok
       THEN /\ cache' = TTLCache_set(cache, matchKey(api[p].shard, api[p].id),
                                     result[p].data, matchTtlMs)
            /\ fetched' = Stored(fetched, "match", api[p].shard, api[p].id,
                                 result[p].data)
            /\ api' = [api EXCEPT ![p].src = "upstream",
                                   ![p].used = result[p].data]
       ELSE UNCHANGED <<cache, fetched, api>>
  /\ Return(p)
  /\ UNCHANGED <<gateVars, shadow, lastOp, wakeAt, cnt, riotVars, cmdVars>>

getMatch(p) == getMatchLookup(p) \/ getMatchStore(p)

\* getRecentMatchIdsByPuuid lines 127-131
getRecentLookup(p) ==
  /\ pc[p] = "getRecentMatchIds"
  /\ LET key == matchlistKey(api[p].shard, api[p].id)
         cached == TTLCache_get(cache, key)
     IN /\ cache' = TTLCache_get_map(cache, key)
        /\ IF Truthy(cached)
             THEN /\ Finish(p, idsFromCached(cached, api[p].start, api[p].count))
                  /\ api' = [api EXCEPT ![p].src = "cache", ![p].used = cached]
                  /\ UNCHANGED gateVars
             ELSE /\ riotRequest(p, matchlistUrl(api[p].shard, api[p].id),
                                 defaultRetry, <<"getRecentStore">>)
                  /\ UNCHANGED <<gateVars, result, api>>
  /\ UNCHANGED <<shadow, lastOp, wakeAt, cnt, fetched, cmdVars>>

\* getRecentMatchIdsByPuuid lines 131-133
getRecentStore(p) ==
  /\ pc[p] = "getRecentStore"
  /\ IF result[p].ok
       THEN /\ cache' = TTLCache_set(cache,
                                     matchlistKey(api[p].shard, api[p].id),
                                     result[p].data, matchlistTtlMs)
            /\ fetched' = Stored(fetched, "matchlist", api[p].shard, api[p].id,
                                 result[p].data)
            /\ result' = [result EXCEPT ![p] =
                            idsFromData(result[p].data, api[p].start,
                                        api[p].count)]
            /\ api' = [api EXCEPT ![p].src = "upstream",
                                   ![p].used = result[p].data]
       ELSE UNCHANGED <<cache, fetched, result, api>>
  /\ Return(p)
  /\ UNCHANGED <<gateVars, shadow, lastOp, wakeAt, cnt, rr, cmdVars>>

getRecentMatchIdsByPuuid(p) == getRecentLookup(p) \/ getRecentStore(p)

\* a handler calls getMatch(matchId, shard)
CallGetMatch(p, matchId, shard) ==
  /\ pc[p] = "idle"
  /\ pc' = [pc EXCEPT ![p] = "getMatch"]
  /\ api' = [api EXCEPT ![p] = [NoArgs EXCEPT !.shard = shard, !.id = matchId]]
  /\ cnt' = [cnt EXCEPT ![p] = NoCount]
  /\ result' = [result EXCEPT ![p] = NoResult]
  /\ UNCHANGED <<gateVars, cacheVars, stk, wakeAt, rr, fetched, cmdVars>>

\* a handler calls getRecentMatchIdsByPuuid(puuid, shard, start, count)
CallGetRecent(p, puuid, shard, start, count) ==
  /\ pc[p] = "idle"
  /\ pc' = [pc EXCEPT ![p] = "getRecentMatchIds"]
  /\ api' = [api EXCEPT ![p] = [NoArgs EXCEPT !.shard = shard, !.id = puuid,
                                                !.start = start,
                                                !.count = count]]
  /\ cnt' = [cnt EXCEPT ![p] = NoCount]
  /\ result' = [result EXCEPT ![p] = NoResult]
  /\ UNCHANGED <<gateVars, cacheVars, stk, wakeAt, rr, fetched, cmdVars>>

\* the callers, matches and windows of the endpoint specifications
ApiProcs == {"p1"}
ApiMatchIds == {"m1"}
Starts == {0, 1}
Counts == {1, 2}
HalfMinute == Advance(matchlistTtlMs)

NextMatch ==
  \/ HalfMinute
  \/ \E p \in ApiProcs :
       \/ \E id \in ApiMatchIds, sh \in Shards : CallGetMatch(p, id, sh)
       \/ RiotStep(p)
       \/ getMatch(p)

SpecMatch == Init /\ [][NextMatch]_vars

NextRecent ==
  \/ HalfMinute
  \/ \E p \in ApiProcs :
       \/ \E u \in Puuids, st \in Starts, n \in Counts :
            CallGetRecent(p, u, "eu", st, n)
       \/ RiotStep(p)
       \/ getRecentMatchIdsByPuuid(p)

SpecRecent == Init /\ [][NextRecent]_vars


\* a record was stored for (shard, matchId) by getMatch no more than 60 s ago
C8_Stored(shard, matchId) ==
  LET k == <<"match", shard, matchId>>
  IN /\ k \in DOMAIN fetched
     /\ Truthy(fetched[k].value)
     /\ Now - fetched[k].at <= 60000

\* C8: a getMatch for a (shard, id) whose record was fetched and stored no
\* more than 60 s ago returns that record, sends no request and consumes no
\* token; a getMatch for a (shard, id) that was never stored, whatever is
\* stored for the same id under another shard, requests the record of its own
\* shard; a getMatch whose fetch has failed leaves the cache as it was.
C8_MatchCachedPerShard ==
  [][\A p \in Procs :
       /\ (pc[p] = "getMatch" /\ pc'[p] # "getMatch"
             /\ C8_Stored(api[p].shard, api[p].id))
            => /\ pc'[p] = "idle"
               /\ result'[p] =
                    Success(fetched[<<"match", api[p].shard, api[p].id>>].value)
               /\ cnt'[p].sent = 0 /\ cnt'[p].took = 0
               /\ tokens' = tokens /\ taken' = taken
       /\ (pc[p] = "getMatch" /\ pc'[p] # "getMatch"
             /\ <<"match", api[p].shard, api[p].id>> \notin DOMAIN fetched)
            => /\ pc'[p] = "takeToken"
               /\ rr'[p].url = matchUrl(api[p].shard, api[p].id)
       /\ (pc[p] = "getMatchStore" /\ pc'[p] # "getMatchStore"
             /\ ~result[p].ok)
            => /\ cache' = cache
               /\ ~result'[p].ok]_vars

\* C8 witness: a getMatch for (eu, m1) has returned, without a request and
\* without a token, the record stored exactly 60 s ago, while a different
\* record of the same match is stored under the other shard.
C8_Witness ==
  \E p \in Procs :
    /\ pc[p] = "idle" /\ api[p].shard = "eu" /\ api[p].id = "m1"
    /\ <<"match", "eu", "m1">> \in DOMAIN fetched
    /\ <<"match", "na", "m1">> \in DOMAIN fetched
    /\ fetched[<<"match", "eu", "m1">>].at = Now - 60000
    /\ fetched[<<"match", "na", "m1">>].at > Now - 60000
    /\ Truthy(fetched[<<"match", "na", "m1">>].value)
    /\ fetched[<<"match", "na", "m1">>].value
         # fetched[<<"match", "eu", "m1">>].value
    /\ result[p] = Success(fetched[<<"match", "eu", "m1">>].value)
    /\ Truthy(result[p].data)
    /\ cnt[p].sent = 0 /\ cnt[p].took = 0

\* C9: a getRecentMatchIdsByPuuid that is answered from the cached response
\* returns what the uncached path returns from that response for the same
\* start and count: the match ids of history[start .. start+count) in order,
\* and no ids when the response has no history.
C9_CachedEqualsUncached ==
  [][\A p \in Procs :
       (pc[p] = "getRecentMatchIds" /\ pc'[p] = "idle")
         => result'[p] =
              idsFromData(fetched[<<"matchlist", api[p].shard, api[p].id>>].value,
                          api[p].start, api[p].count)]_vars


--------------------------------------------------------------------------
(* The command handlers (interactionCreate, lines 332-538).  ia[p] is the
   interaction handler p works on: the command, the caller, the options, the
   handler's locals and the replies issued so far.  An absent string option
   (getString gives null) is "", which || treats like null.  lastLinkedAt
   is written and never read, and is left out of a Link.  The texts of the
   replies are written without diacritics. *)

\* process.env.RIOT_REGION || 'europe', process.env.VAL_SHARD || 'eu'
RIOT_REGION == "europe"
VAL_SHARD == "eu"

\* a || b on strings
OrElse(a, b) == IF a = "" THEN b ELSE a

\* obj?.field || dflt, for text fields
Opt(obj, field, dflt) ==
  IF field \in DOMAIN obj THEN OrElse(obj[field], dflt) ELSE dflt

\* `${obj.field}`: the text of a field, of undefined when it is missing
Str(obj, field) == IF field \in DOMAIN obj THEN obj[field] ELSE "undefined"

\* link?.shard || VAL_SHARD, link?.region || RIOT_REGION
effectiveShard(link) ==
  IF link = null THEN VAL_SHARD ELSE Opt(link, "shard", VAL_SHARD)
effectiveRegion(link) ==
  IF link = null THEN RIOT_REGION ELSE Opt(link, "region", RIOT_REGION)

\* a string as the sequence of its characters, and back
RECURSIVE Join(_)
Join(chars) == IF chars = <<>> THEN "" ELSE Head(chars) \o Join(Tail(chars))

\* String.prototype.lastIndexOf(ch): 0-based, -1 when absent
lastIndexOf_first(chars, ch) ==
  IF \E i \in DOMAIN chars : chars[i] = ch
    THEN (CHOOSE i \in DOMAIN chars :
            /\ chars[i] = ch
            /\ \A j \in DOMAIN chars : chars[j] = ch => i <= j) - 1
    ELSE -1
lastIndexOf(chars, ch) ==
  IF \E i \in DOMAIN chars : chars[i] = ch
    THEN (CHOOSE i \in DOMAIN chars :
            /\ chars[i] = ch
            /\ \A j \in DOMAIN chars : chars[j] = ch => j <= i) - 1
    ELSE -1

\* String.prototype.trim()
RECURSIVE trimStart(_)
trimStart(chars) ==
  IF chars # <<>> /\ Head(chars) = " " THEN trimStart(Tail(chars)) ELSE chars
RECURSIVE trimEnd(_)
trimEnd(chars) ==
  IF chars # <<>> /\ chars[Len(chars)] = " "
    THEN trimEnd(SubSeq(chars, 1, Len(chars) - 1))
    ELSE chars
trim(chars) == trimEnd(trimStart(chars))

\* a thrown Error that is not a response status: a parse error
ParseError == [ok |-> FALSE, status |-> -2, data |-> null]

\* parseRiotId(input), lines 111-118
parseRiotId(input) ==
  LET idx == lastIndexOf(input, "#")
      gameName == Join(trim(SubSeq(input, 1, idx)))
      tagLine == Join(trim(SubSeq(input, idx + 2, Len(input))))
  IN IF idx = -1 THEN ParseError
     ELSE IF gameName = "" \/ tagLine = "" THEN ParseError
     ELSE Success([gameName |-> gameName, tagLine |-> tagLine])

\* e.message, abbreviated to the kind of the error
errMessage(r) ==
  CASE r.status = -2 -> "Niepoprawny format Riot ID."
    [] r.status = -1 -> "TypeError"
    [] r.status = -3 -> "write failed"
    [] r.status = -4 -> "The reply to this interaction has already been sent or deferred."
    [] r.status = 0 -> "fetch failed"
    [] OTHER -> "HTTP " \o ToString(r.status)

\* what the handler sends through the interaction
Sent(op, content, embed, ephemeral) ==
  [op |-> op, content |-> content, embed |-> embed, ephemeral |-> ephemeral]
deferReply(ephemeral) == Sent("deferReply", "", null, ephemeral)
editReply(content) == Sent("editReply", content, null, FALSE)
editReplyEmbed(embed) == Sent("editReply", "", embed, FALSE)
reply(content) == Sent("reply", content, null, TRUE)

\* the handler of p sends m, having written logs with console.error, and
\* goes on at label next ("idle": it returns)
SendLogIn(held, p, m, next, logs) ==
  /\ ia' = [held EXCEPT ![p].replies = Append(@, m), ![p].logged = @ \o logs]
  /\ pc' = [pc EXCEPT ![p] = next]
SendLog(p, m, next, logs) == SendLogIn(ia, p, m, next, logs)
Send(p, m, next) == SendLog(p, m, next, <<>>)

\* writeFileSync(path, JSON.stringify(data)): the file afterwards, written
\* (ok) or not
writeFileSync(ok, file, data) == IF ok THEN data ELSE file
\* saveJson returns normally: a failed write is caught and logged
saveJson_throws(ok) == ok
saveJson(ok) == TRUE
\* console.error('Save error', e)
saveLog(ok) == IF ok THEN <<>> ELSE <<"Save error">>
\* the Error of a failed write
WriteError == [ok |-> FALSE, status |-> -3, data |-> null]

\* the handler of p calls an async function: it continues at label cont when
\* the call has ended
Await(p, fn, cont) ==
  /\ pc' = [pc EXCEPT ![p] = fn]
  /\ stk' = [stk EXCEPT ![p] = <<cont>> \o @]

\* the interaction's string options that were not given
NoOptions == [riot_id |-> <<>>, shard |-> "", region |-> "", user |-> "",
              queue |-> "", agent |-> "", map |-> ""]

\* link / dodaj, lines 336-351
link(p) ==
  \/ /\ pc[p] = "link"
     /\ Send(p, deferReply(TRUE), "linkParse")
     /\ UNCHANGED <<gateVars, stk, wakeAt, cacheVars, cnt, riotVars, apiVars, linkVars, seen>>
  \/ /\ pc[p] = "linkParse"
     /\ LET parsed == parseRiotId(ia[p].options.riot_id)
        IN IF ~parsed.ok
             THEN /\ Send(p, editReply("Nie udalo sie powiazac: "
                                         \o errMessage(parsed)), "idle")
                  /\ UNCHANGED <<stk, rr>>
             ELSE /\ riotRequest(p, accountUrl(OrElse(ia[p].options.region,
                                                      effectiveRegion(null)),
                                               parsed.data.gameName,
                                               parsed.data.tagLine),
                                 defaultRetry, <<"linkStore">>)
                  /\ UNCHANGED ia
     /\ UNCHANGED <<gateVars, wakeAt, cacheVars, cnt, result, apiVars, linkVars, seen>>
  \/ /\ pc[p] = "linkStore"
     /\ LET account == result[p].data
            shard == OrElse(ia[p].options.shard, effectiveShard(null))
            region == OrElse(ia[p].options.region, effectiveRegion(null))
        IN IF ~result[p].ok
             THEN /\ Send(p, editReply("Nie udalo sie powiazac: "
                                         \o errMessage(result[p])), "idle")
                  /\ UNCHANGED linkVars
           ELSE IF account = null
             THEN /\ Send(p, editReply("Nie udalo sie powiazac: "
                                         \o errMessage(TypeError)), "idle")
                  /\ UNCHANGED linkVars
             ELSE \E ok \in BOOLEAN :
                    /\ LINKS' = MapSet(LINKS, ia[p].user,
                                       [gameName |-> account.gameName,
                                        tagLine |-> account.tagLine,
                                        shard |-> shard, region |-> region,
                                        oid |-> ia[p].n])
                    /\ disk' = writeFileSync(ok, disk, LINKS')
                    /\ IF saveJson(ok)
                         THEN SendLog(p, editReply("Powiazano z **"
                                        \o account.gameName \o "#"
                                        \o account.tagLine \o "** ("
                                        \o shard \o " / " \o region \o ")."),
                                      "idle", saveLog(ok))
                         ELSE Send(p, editReply("Nie udalo sie powiazac: "
                                                  \o errMessage(WriteError)),
                                   "idle")
     /\ UNCHANGED <<gateVars, stk, wakeAt, cacheVars, cnt, riotVars, apiVars, seen>>


\* userLink(userId): LINKS[userId], undefined (null) when there is none
userLink(userId) == IF userId \in DOMAIN LINKS THEN LINKS[userId] ELSE null

\* ensureLink's message for a target without a Link, lines 387-388
notLinkedMsg(targetId, userId) ==
  IF targetId = userId
    THEN "Nie masz powiazanego Riot ID. Uzyj /link Nick#TAG"
    ELSE "<@" \o targetId \o "> nie ma powiazanego Riot ID."

\* catch (e) of a command's try block: editReply(`Blad: ${e.message}`)
Caught(p, e) ==
  /\ Send(p, editReply("Blad: " \o errMessage(e)), "idle")
  /\ stk' = [stk EXCEPT ![p] = <<>>]

\* buildLastMatchEmbed lines 236-240 for a record without matchInfo and
\* players: title, mode and map name
buildLastMatchEmbed(account, match, maps) ==
  LET mapTail == toLowerCase("mapa")
      mapName == IF mapTail \in DOMAIN maps.m
                   THEN maps.m[mapTail].displayName ELSE mapTail
  IN [title |-> "Ostatni mecz - " \o account.gameName \o "#" \o account.tagLine,
      Tryb |-> "-", Mapa |-> mapName]

\* lastmatch, lines 424-437
lastmatch(p) ==
  \/ /\ pc[p] = "lastmatch"
     /\ LET target == OrElse(ia[p].options.user, ia[p].user)
            lnk == userLink(target)
        IN IF lnk = null
             THEN Send(p, reply(notLinkedMsg(target, ia[p].user)), "idle")
             ELSE /\ ia' = [ia EXCEPT ![p].link = lnk,
                                      ![p].replies = Append(@, deferReply(FALSE))]
                  /\ pc' = [pc EXCEPT ![p] = "lmAccount"]
     /\ UNCHANGED <<gateVars, stk, wakeAt, cacheVars, cnt, riotVars, apiVars, linkVars, seen>>
  \/ /\ pc[p] = "lmAccount"
     /\ riotRequest(p, accountUrl(effectiveRegion(ia[p].link),
                                  Str(ia[p].link, "gameName"),
                                  Str(ia[p].link, "tagLine")),
                    defaultRetry, <<"lmRecent">>)
     /\ UNCHANGED <<gateVars, wakeAt, cacheVars, cnt, result, apiVars, cmdVars>>
  \/ /\ pc[p] = "lmRecent"
     /\ IF ~result[p].ok
          THEN Caught(p, result[p]) /\ UNCHANGED api
        ELSE IF result[p].data = null
          THEN Caught(p, TypeError) /\ UNCHANGED api
          ELSE /\ ia' = [ia EXCEPT ![p].account = result[p].data]
               /\ api' = [api EXCEPT ![p] =
                            [NoArgs EXCEPT !.id = result[p].data.puuid,
                                           !.shard = effectiveShard(ia[p].link),
                                           !.start = 0, !.count = 1]]
               /\ Await(p, "getRecentMatchIds", "lmMatch")
     /\ UNCHANGED <<gateVars, wakeAt, cacheVars, cnt, riotVars, fetched, linkVars, seen>>
  \/ /\ pc[p] = "lmMatch"
     /\ IF ~result[p].ok
          THEN Caught(p, result[p]) /\ UNCHANGED api
        ELSE IF result[p].data.items = <<>>
          THEN /\ Send(p, editReply("Brak meczow."), "idle")
               /\ UNCHANGED <<stk, api>>
          ELSE /\ api' = [api EXCEPT ![p] =
                            [NoArgs EXCEPT !.id = result[p].data.items[1],
                                           !.shard = effectiveShard(ia[p].link)]]
               /\ Await(p, "getMatch", "lmAgents")
               /\ UNCHANGED ia
     /\ UNCHANGED <<gateVars, wakeAt, cacheVars, cnt, riotVars, fetched, linkVars, seen>>
  \/ /\ pc[p] = "lmAgents"
     /\ IF ~result[p].ok
          THEN Caught(p, result[p])
          ELSE /\ ia' = [ia EXCEPT ![p].match = result[p].data]
               /\ Await(p, "getAgents", "lmMaps")
     /\ UNCHANGED <<gateVars, wakeAt, cacheVars, cnt, riotVars, apiVars, linkVars, seen>>
  \/ /\ pc[p] = "lmMaps"
     /\ IF ~result[p].ok
          THEN Caught(p, result[p])
          ELSE Await(p, "getMaps", "lmEmbed") /\ UNCHANGED ia
     /\ UNCHANGED <<gateVars, wakeAt, cacheVars, cnt, riotVars, apiVars, linkVars, seen>>
  \/ /\ pc[p] = "lmEmbed"
     /\ IF ~result[p].ok
          THEN Caught(p, result[p])
        ELSE IF ia[p].match = null
          THEN Caught(p, TypeError)
          ELSE /\ Send(p, editReplyEmbed(buildLastMatchEmbed(ia[p].account,
                                                             ia[p].match,
                                                             result[p].data)),
                       "idle")
               /\ UNCHANGED stk
     /\ UNCHANGED <<gateVars, wakeAt, cacheVars, cnt, riotVars, apiVars, linkVars, seen>>

\* the number of interactions of a run
MaxInteractions == 3

\* an interaction arrives: the framework invokes the handler with it
Interaction(p, commandName, userId, options) ==
  /\ pc[p] = "idle"
  /\ seen < MaxInteractions
  /\ seen' = seen + 1
  /\ pc' = [pc EXCEPT ![p] = commandName]
  /\ ia' = [ia EXCEPT ![p] =
              [NoInteraction EXCEPT
                 !.commandName = commandName, !.user = userId,
                 !.options = options, !.n = seen + 1,
                 !.shard0 = effectiveShard(userLink(OrElse(options.user, userId)))]]
  /\ api' = [api EXCEPT ![p] = NoArgs]
  /\ cnt' = [cnt EXCEPT ![p] = NoCount]
  /\ result' = [result EXCEPT ![p] = NoResult]
  /\ UNCHANGED <<gateVars, cacheVars, stk, wakeAt, rr, fetched, linkVars>>

\* the callers and the Riot IDs they type
CmdProcs == {"p1"}
Users == {"ua"}
RiotIdInputs == {<<"N", "i", "c", "k", "#", "T", "A", "G">>,
                 <<"N", "o", "S", "e", "p">>}

NextLast ==
  \/ LongJump
  \/ \E p \in CmdProcs, u \in Users :
       \/ \E id \in RiotIdInputs :
            Interaction(p, "link", u, [NoOptions EXCEPT !.riot_id = id])
       \/ Interaction(p, "lastmatch", u, NoOptions)
  \/ \E p \in CmdProcs :
       \/ link(p)
       \/ lastmatch(p)
       \/ RiotStep(p)
       \/ getRecentMatchIdsByPuuid(p)
       \/ getMatch(p)
       \/ getAgents(p)
       \/ getMaps(p)

SpecLast == Init /\ [][NextLast]_vars


\* the match-id list the endpoint call of p worked on, taken from upstream or
\* from the cache, holds no match
C10_EmptyList(p) ==
  /\ api[p].src # "none"
  /\ ~HasHistory(api[p].used) \/ api[p].used.history = <<>>

\* C10: a lastmatch of a linked caller whose match-id list, fetched or taken
\* from the match-list cache, is empty ends with the deferred reply edited to
\* the "no matches" message and with no error reported, whichever request of
\* a sequence it is.
C10_EmptyListNoMatches ==
  [][\A p \in Procs :
       (ia[p].commandName = "lastmatch" /\ pc[p] = "lmMatch"
          /\ pc'[p] # "lmMatch" /\ C10_EmptyList(p))
         => /\ pc'[p] = "idle"
            /\ ia'[p].replies = <<deferReply(FALSE), editReply("Brak meczow.")>>]_vars

--------------------------------------------------------------------------
(* parseRiotId on its own: the inputs are all the texts of up to
   MaxRiotIdLen characters over a letter, the separator and a blank, and the
   texts the handlers are given. *)

MaxRiotIdLen == 4
RiotIdChars == {"a", "#", " "}
RECURSIVE Texts(_)
Texts(n) ==
  IF n = 0 THEN {<<>>}
  ELSE Texts(n - 1) \cup
       {Append(t, c) : t \in {u \in Texts(n - 1) : Len(u) = n - 1},
                       c \in RiotIdChars}
ParseInputs ==
  Texts(MaxRiotIdLen) \cup RiotIdInputs
    \cup {<<"#", "T", "A", "G">>, <<"N", "i", "c", "k", "#">>}

\* a caller applies parseRiotId to the riot_id option it was given
Parse(p, input) ==
  /\ pc[p] = "idle"
  /\ ia[p] = NoInteraction
  /\ ia' = [ia EXCEPT ![p] = [NoInteraction EXCEPT
                                !.options = [NoOptions EXCEPT !.riot_id = input]]]
  /\ result' = [result EXCEPT ![p] = parseRiotId(input)]
  /\ UNCHANGED <<gateVars, procVars, cacheVars, cnt, rr, apiVars, linkVars, seen>>

NextParse == \E p \in CmdProcs, input \in ParseInputs : Parse(p, input)

SpecParse == Init /\ [][NextParse]_vars

\* the characters of s from the first to the last one that is not a blank
\* among positions lo..hi
C13_Trimmed(s, lo, hi) ==
  LET solid == {j \in lo..hi : s[j] # " "}
  IN IF solid = {} THEN <<>>
     ELSE SubSeq(s, CHOOSE j \in solid : \A k \in solid : j <= k,
                    CHOOSE j \in solid : \A k \in solid : k <= j)

\* C13: parseRiotId fails with a parse error exactly when its input has no
\* '#', or nothing but blanks before or after the last '#'; otherwise it
\* returns the trimmed text before the last '#' as the name and the trimmed
\* text after it as the tag.
C13_SplitAtLastHash ==
  \A p \in Procs :
    ia[p].options # null =>
      LET s == ia[p].options.riot_id
          hashes == {i \in DOMAIN s : s[i] = "#"}
          last == CHOOSE i \in hashes : \A j \in hashes : j <= i
      IN IF hashes = {}
           THEN result[p] = ParseError
         ELSE IF C13_Trimmed(s, 1, last - 1) = <<>>
                   \/ C13_Trimmed(s, last + 1, Len(s)) = <<>>
           THEN result[p] = ParseError
           ELSE result[p] =
                  Success([gameName |-> Join(C13_Trimmed(s, 1, last - 1)),
                           tagLine |-> Join(C13_Trimmed(s, last + 1, Len(s)))])

\* C13 witness: "Nick#TAG" has been parsed into (Nick, TAG).
C13_Witness ==
  \E p \in Procs :
    /\ ia[p].options # null
    /\ ia[p].options.riot_id = <<"N", "i", "c", "k", "#", "T", "A", "G">>
    /\ result[p] = Success([gameName |-> "Nick", tagLine |-> "TAG"])

--------------------------------------------------------------------------
(* Aggregation (aggregateRecentStats, lines 173-190, and the tallies of
   agent-stats and map-stats).  A match record is an object whose
   matchInfo, players and teams may each be missing; a count is a natural
   number.  The kill/death ratio is the text toFixed(2) gives. *)

\* m.matchInfo?.gameMode, undefined being ""
gameModeOf(m) ==
  IF "matchInfo" \in DOMAIN m THEN Opt(m.matchInfo, "gameMode", "") ELSE ""

\* (m.matchInfo?.mapId?.split('/')?.pop() || dflt).toLowerCase()
mapTailOf(m, dflt) ==
  toLowerCase(OrElse(IF "matchInfo" \in DOMAIN m
                       THEN urlTail(Opt(m.matchInfo, "mapId", ""))
                       ELSE "", dflt))

\* m.players?.find(p => p.puuid === puuid), undefined being null
playerOf(m, puuid) ==
  LET ps == IF "players" \in DOMAIN m THEN m.players ELSE <<>>
      hits == {i \in DOMAIN ps : ps[i].puuid = puuid}
  IN IF hits = {} THEN null
     ELSE ps[CHOOSE i \in hits : \A j \in hits : i <= j]

\* player?.stats is there
hasStats(player) == player # null /\ "stats" \in DOMAIN player

\* m.teams?.find(t => t.teamId === team)?.won, as the truth value `if (won)`
\* sees
wonOf_always(m, team) == TRUE
wonOf(m, team) ==
  LET ts == IF "teams" \in DOMAIN m THEN m.teams ELSE <<>>
      hits == {i \in DOMAIN ts : ts[i].teamId = team}
  IN /\ hits # {}
     /\ LET t == ts[CHOOSE i \in hits : \A j \in hits : i <= j]
        IN "won" \in DOMAIN t /\ t.won

\* map.set(key, (map.get(key) || 0) + 1)
Bump(map, key) ==
  MapSet(map, key, (IF key \in DOMAIN map THEN map[key] ELSE 0) + 1)

\* a decimal digit as text
Digit(n) == ToString(n)

\* (k / d).toFixed(2) for d > 0: the nearest hundredth, the larger one on a
\* tie
toFixed2(k, d) ==
  LET h == (200 * k + d) \div (2 * d)
  IN ToString(h \div 100) \o "." \o Digit((h % 100) \div 10) \o Digit(h % 10)

\* the text shown for deaths = 0 (the sign of infinity)
Infinite == "inf"

\* d > 0 ? (k / d).toFixed(2) : Infinite
kdOf_zero(k, d) == IF d > 0 THEN toFixed2(k, d) ELSE "0.00"
kdOf(k, d) == IF d > 0 THEN toFixed2(k, d) ELSE Infinite

\* const modeFilter = (!queue || queue === 'any') ? null : queue; null is ""
modeFilterOf_raw(queue) == queue
modeFilterOf(queue) == IF queue = "" \/ queue = "any" THEN "" ELSE queue

\* the counters before the loop
NoStats == [k |-> 0, d |-> 0, a |-> 0, wins |-> 0, total |-> 0,
            perAgent |-> EmptyMap, perMap |-> EmptyMap]

\* one pass of the loop of aggregateRecentStats, lines 176-186
aggregateOne(acc, m, puuid, modeFilter) ==
  LET mode == OrElse(gameModeOf(m), "unknown")
      player == playerOf(m, puuid)
  IN IF modeFilter # "" /\ mode # modeFilter THEN acc
     ELSE IF ~hasStats(player) THEN acc
     ELSE [k |-> acc.k + player.stats.kills,
           d |-> acc.d + player.stats.deaths,
           a |-> acc.a + player.stats.assists,
           wins |-> acc.wins + (IF wonOf(m, Opt(player, "teamId", ""))
                                  THEN 1 ELSE 0),
           total |-> acc.total + 1,
           perAgent |-> Bump(acc.perAgent,
                             toLowerCase(Opt(player, "characterId", "unknown"))),
           perMap |-> Bump(acc.perMap, mapTailOf(m, "map"))]

RECURSIVE aggregateLoop(_, _, _, _)
aggregateLoop(acc, matches, puuid, modeFilter) ==
  IF matches = <<>> THEN acc
  ELSE aggregateLoop(aggregateOne(acc, Head(matches), puuid, modeFilter),
                     Tail(matches), puuid, modeFilter)

\* aggregateRecentStats(puuid, matches, modeFilter)
aggregateRecentStats(puuid, matches, modeFilter) ==
  LET r == aggregateLoop(NoStats, matches, puuid, modeFilter)
  IN [k |-> r.k, d |-> r.d, a |-> r.a, wins |-> r.wins, total |-> r.total,
      kd |-> kdOf(r.k, r.d), perAgent |-> r.perAgent, perMap |-> r.perMap]

\* tally[key] = tally[key] || {games: 0, ...}; tally[key].games++; ...: the
\* tally is the sequence of its entries in the order of Object.entries
tallyAdd(tally, key, won, stats) ==
  IF \E i \in DOMAIN tally : tally[i].key = key
    THEN [i \in DOMAIN tally |->
            IF tally[i].key # key THEN tally[i]
            ELSE [tally[i] EXCEPT !.games = @ + 1,
                                  !.wins = @ + (IF won THEN 1 ELSE 0),
                                  !.k = @ + stats.kills,
                                  !.d = @ + stats.deaths,
                                  !.a = @ + stats.assists]]
    ELSE Append(tally, [key |-> key, games |-> 1,
                        wins |-> IF won THEN 1 ELSE 0,
                        k |-> stats.kills, d |-> stats.deaths,
                        a |-> stats.assists])

\* one pass of the loop of agent-stats, lines 459-468
agentTallyOne(tally, m, puuid, modeFilter, agentUuidFilter) ==
  LET me == playerOf(m, puuid)
      agUuid == toLowerCase(Opt(me, "characterId", ""))
  IN IF modeFilter # "" /\ gameModeOf(m) # modeFilter THEN tally
     ELSE IF ~hasStats(me) THEN tally
     ELSE IF agentUuidFilter # "" /\ agUuid # agentUuidFilter THEN tally
     ELSE tallyAdd(tally, OrElse(agUuid, "unknown"),
                   wonOf(m, Opt(me, "teamId", "")), me.stats)

RECURSIVE agentTally(_, _, _, _, _)
agentTally(tally, matches, puuid, modeFilter, agentUuidFilter) ==
  IF matches = <<>> THEN tally
  ELSE agentTally(agentTallyOne(tally, Head(matches), puuid, modeFilter,
                                agentUuidFilter),
                  Tail(matches), puuid, modeFilter, agentUuidFilter)

\* one pass of the loop of map-stats, lines 508-516
mapTallyOne(tally, m, puuid, modeFilter, mapTailFilter) ==
  LET tail == mapTailOf(m, "map")
      me == playerOf(m, puuid)
  IN IF modeFilter # "" /\ gameModeOf(m) # modeFilter THEN tally
     ELSE IF mapTailFilter # "" /\ tail # mapTailFilter THEN tally
     ELSE IF ~hasStats(me) THEN tally
     ELSE tallyAdd(tally, tail, wonOf(m, Opt(me, "teamId", "")), me.stats)

RECURSIVE mapTally(_, _, _, _, _)
mapTally(tally, matches, puuid, modeFilter, mapTailFilter) ==
  IF matches = <<>> THEN tally
  ELSE mapTally(mapTallyOne(tally, Head(matches), puuid, modeFilter,
                            mapTailFilter),
                Tail(matches), puuid, modeFilter, mapTailFilter)

\* ((v.wins / v.games) * 100).toFixed(0) + '%'
wrOf(wins, games) ==
  ToString((200 * wins + games) \div (2 * games)) \o "%"

\* .sort((a, b) => b.games - a.games): stable, most games first
RECURSIVE sortByGames(_, _)
sortByGames(sorted, rest) ==
  IF rest = <<>> THEN sorted
  ELSE LET e == Head(rest)
           pos == Cardinality({i \in DOMAIN sorted : sorted[i].games >= e.games})
       IN sortByGames(SubSeq(sorted, 1, pos) \o <<e>>
                        \o SubSeq(sorted, pos + 1, Len(sorted)),
                      Tail(rest))

\* the roster value with this uuid: [...agents.values()].find(...)?.displayName
\* || '-'
agentNameOf(agents, uuid) ==
  LET hits == {k \in DOMAIN agents.m :
                 toLowerCase(Opt(agents.m[k], "uuid", "")) = uuid}
  IN IF hits = {} THEN "-"
     ELSE Opt(agents.m[CHOOSE k \in hits : TRUE], "displayName", "-")

\* maps.get(tail)?.displayName || tail
mapNameOf(maps, tail) ==
  IF tail \in DOMAIN maps.m THEN Opt(maps.m[tail], "displayName", tail) ELSE tail

\* Object.entries(tally).map(...).sort(...) of agent-stats, lines 471-477
agentList(tally, agents) ==
  sortByGames(<<>>, [i \in DOMAIN tally |->
                       [uuid |-> tally[i].key,
                        name |-> agentNameOf(agents, tally[i].key),
                        games |-> tally[i].games, wins |-> tally[i].wins,
                        k |-> tally[i].k, d |-> tally[i].d, a |-> tally[i].a,
                        kd |-> kdOf(tally[i].k, tally[i].d),
                        wr |-> wrOf(tally[i].wins, tally[i].games)]])

\* Object.entries(tally).map(...).sort(...) of map-stats, lines 520-523
mapList(tally, maps) ==
  sortByGames(<<>>, [i \in DOMAIN tally |->
                       [tail |-> tally[i].key,
                        name |-> mapNameOf(maps, tally[i].key),
                        games |-> tally[i].games, wins |-> tally[i].wins,
                        k |-> tally[i].k, d |-> tally[i].d, a |-> tally[i].a,
                        kd |-> kdOf(tally[i].k, tally[i].d),
                        wr |-> wrOf(tally[i].wins, tally[i].games)]])

\* the player whose games are aggregated, and the match records supplied: a
\* won competitive game, an unrated game without a death, a game without
\* teams, a game without matchInfo, a game without stats for the player and
\* a game without players
AggPuuid == "u1"
AggWon ==
  [t |-> "obj", matchId |-> "m1",
   matchInfo |-> [gameMode |-> "competitive", mapId |-> "/Game/Maps/Ascent/Ascent"],
   players |-> <<[puuid |-> "u9", teamId |-> "Red", characterId |-> "A2",
                  stats |-> [kills |-> 5, deaths |-> 5, assists |-> 5]],
                 [puuid |-> "u1", teamId |-> "Blue", characterId |-> "A1",
                  stats |-> [kills |-> 1, deaths |-> 8, assists |-> 0]]>>,
   teams |-> <<[teamId |-> "Red", won |-> FALSE], [teamId |-> "Blue", won |-> TRUE]>>]
AggUnrated ==
  [t |-> "obj", matchId |-> "m2",
   matchInfo |-> [gameMode |-> "unrated", mapId |-> "/Game/Maps/Duality/Duality"],
   players |-> <<[puuid |-> "u1", teamId |-> "Red", characterId |-> "A2",
                  stats |-> [kills |-> 3, deaths |-> 0, assists |-> 1]]>>,
   teams |-> <<[teamId |-> "Red", won |-> FALSE], [teamId |-> "Blue", won |-> TRUE]>>]
AggNoTeams ==
  [t |-> "obj", matchId |-> "m3",
   matchInfo |-> [gameMode |-> "competitive"],
   players |-> <<[puuid |-> "u1", teamId |-> "Blue",
                  stats |-> [kills |-> 2, deaths |-> 0, assists |-> 0]]>>]
AggNoInfo ==
  [t |-> "obj", matchId |-> "m4",
   players |-> <<[puuid |-> "u1", characterId |-> "A1",
                  stats |-> [kills |-> 0, deaths |-> 3, assists |-> 2]]>>,
   teams |-> <<[teamId |-> "Blue", won |-> TRUE]>>]
AggNoStats ==
  [t |-> "obj", matchId |-> "m5",
   matchInfo |-> [gameMode |-> "competitive", mapId |-> "/Game/Maps/Ascent/Ascent"],
   players |-> <<[puuid |-> "u1", teamId |-> "Blue", characterId |-> "A1"]>>,
   teams |-> <<[teamId |-> "Blue", won |-> TRUE]>>]
AggNoPlayers ==
  [t |-> "obj", matchId |-> "m6", matchInfo |-> [gameMode |-> "competitive"]]
AggMatches == {AggWon, AggUnrated, AggNoTeams, AggNoInfo, AggNoStats, AggNoPlayers}

MaxMatches == 3
RECURSIVE MatchLists(_)
MatchLists(n) ==
  IF n = 0 THEN {<<>>}
  ELSE MatchLists(n - 1) \cup
       {Append(l, m) : l \in {u \in MatchLists(n - 1) : Len(u) = n - 1},
                       m \in AggMatches}
\* the queue option: absent, '(wszystkie)' and two modes
Queues == {"", "any", "competitive", "unrated"}
\* the rosters as valorant-api.com gives them
AgentsRoster == byName(CHOOSE j \in AgentsJson : "data" \in DOMAIN j)
MapsRoster == byUrlTail(CHOOSE j \in MapsJson : "data" \in DOMAIN j)

\* a command aggregates the records it fetched: the profile summary, the
\* agent-stats list and the map-stats list
Aggregate(p, matches, queue) ==
  /\ pc[p] = "idle"
  /\ ia[p] = NoInteraction
  /\ ia' = [ia EXCEPT ![p] = [NoInteraction EXCEPT
                                !.matches = matches,
                                !.options = [NoOptions EXCEPT !.queue = queue]]]
  /\ result' = [result EXCEPT ![p] =
       Success([summary |-> aggregateRecentStats(AggPuuid, matches,
                                                 modeFilterOf(queue)),
                agents |-> agentList(agentTally(<<>>, matches, AggPuuid,
                                                modeFilterOf(queue), ""),
                                     AgentsRoster),
                maps |-> mapList(mapTally(<<>>, matches, AggPuuid,
                                          modeFilterOf(queue), ""),
                                 MapsRoster)])]
  /\ UNCHANGED <<gateVars, procVars, cacheVars, cnt, rr, apiVars, linkVars, seen>>

NextAggregate ==
  \E p \in CmdProcs, matches \in MatchLists(MaxMatches), queue \in Queues :
    Aggregate(p, matches, queue)

SpecAggregate == Init /\ [][NextAggregate]_vars

\* the mode of a record, and whether it has an entry with stats for the
\* player
C14_Mode(m) ==
  IF "matchInfo" \in DOMAIN m /\ "gameMode" \in DOMAIN m.matchInfo
    THEN m.matchInfo.gameMode ELSE "unknown"
C14_Played(m) ==
  /\ "players" \in DOMAIN m
  /\ \E i \in DOMAIN m.players :
       m.players[i].puuid = AggPuuid /\ "stats" \in DOMAIN m.players[i]
\* the positions of the records that count under the queue option
C14_Counted(matches, queue) ==
  {i \in DOMAIN matches :
     /\ C14_Played(matches[i])
     /\ queue \in {"", "any"} \/ C14_Mode(matches[i]) = queue}

\* C14: the game count of aggregateRecentStats is the number of supplied
\* records that have an entry with stats for the player and, when the queue
\* option names a mode, are of that mode; the queue 'any' and an absent queue
\* filter nothing.
C14_ModeFilter ==
  \A p \in Procs :
    (ia[p].options # null /\ result[p].data # null) =>
      result[p].data.summary.total
        = Cardinality(C14_Counted(ia[p].matches, ia[p].options.queue))

\* C14 witness: a competitive and an unrated record aggregated with the
\* filter competitive give a game count of 1, and 2 with the queue 'any'.
C14_Witness ==
  \E p \in Procs :
    /\ ia[p].matches = <<AggWon, AggUnrated>>
    /\ ia[p].options.queue = "competitive"
    /\ result[p].data.summary.total = 1

\* the sum of the values of a tally map
RECURSIVE C15_Sum(_)
C15_Sum(map) ==
  IF DOMAIN map = {} THEN 0
  ELSE LET k == CHOOSE x \in DOMAIN map : TRUE
       IN map[k] + C15_Sum([y \in DOMAIN map \ {k} |-> map[y]])
\* the win flag of the player's team is there and set
C15_Won(m) ==
  /\ "teams" \in DOMAIN m
  /\ \E i \in DOMAIN m.players, j \in DOMAIN m.teams :
       /\ m.players[i].puuid = AggPuuid
       /\ "teamId" \in DOMAIN m.players[i]
       /\ m.teams[j].teamId = m.players[i].teamId
       /\ m.teams[j].won

\* C15: the win count of aggregateRecentStats is the number of counted
\* records whose team's win flag is resolved and set, so a counted record
\* with an unresolved team or flag adds a game and no win; wins <= total <=
\* the number of supplied records, and the per-agent counts and the per-map
\* counts each sum to total.
C15_TotalsAndTallies ==
  \A p \in Procs :
    (ia[p].options # null /\ result[p].data # null) =>
      LET s == result[p].data.summary
          counted == C14_Counted(ia[p].matches, ia[p].options.queue)
      IN /\ s.wins = Cardinality({i \in counted : C15_Won(ia[p].matches[i])})
         /\ s.wins <= s.total
         /\ s.total <= Len(ia[p].matches)
         /\ C15_Sum(s.perAgent) = s.total
         /\ C15_Sum(s.perMap) = s.total

\* C15 witness: of three counted records one has no teams and one no team of
\* the player: three games, one win, tallies over two agents and two maps.
C15_Witness ==
  \E p \in Procs :
    /\ ia[p].matches = <<AggWon, AggNoTeams, AggNoInfo>>
    /\ ia[p].options.queue = ""
    /\ result[p].data.summary.total = 3
    /\ result[p].data.summary.wins = 1
    /\ Cardinality(DOMAIN result[p].data.summary.perAgent) = 2
    /\ Cardinality(DOMAIN result[p].data.summary.perMap) = 2

\* h hundredths as toFixed(2) writes them
C16_Text(h) ==
  ToString(h \div 100) \o "." \o ToString((h % 100) \div 10) \o ToString(h % 10)
\* kd is the ratio of k kills to d deaths as the claim has it
C16_Ratio(kd, k, d) ==
  IF d = 0 THEN kd = Infinite
  ELSE \E h \in 0..(100 * k + 1) :
         /\ kd = C16_Text(h)
         /\ 2 * (100 * k - h * d) < d
         /\ 2 * (h * d - 100 * k) <= d

\* C16: the ratio of the profile summary, of every agent-stats entry and of
\* every map-stats entry is the infinite sentinel when its deaths are 0, and
\* otherwise kills/deaths rounded to the nearest hundredth (a tie going up).
C16_KillDeathRatio ==
  \A p \in Procs :
    (ia[p].options # null /\ result[p].data # null) =>
      LET r == result[p].data
      IN /\ C16_Ratio(r.summary.kd, r.summary.k, r.summary.d)
         /\ \A i \in DOMAIN r.agents :
              C16_Ratio(r.agents[i].kd, r.agents[i].k, r.agents[i].d)
         /\ \A i \in DOMAIN r.maps :
              C16_Ratio(r.maps[i].kd, r.maps[i].k, r.maps[i].d)

\* C16 witness: a summary of 4 kills and 8 deaths reads 0.50, its agent
\* entry of 3 kills and no death the sentinel, its map entry of 1 kill and
\* 8 deaths 0.13.
C16_Witness ==
  \E p \in Procs :
    /\ ia[p].matches = <<AggUnrated, AggWon>>
    /\ ia[p].options.queue = "any"
    /\ result[p].data.summary.kd = "0.50"
    /\ \E i \in DOMAIN result[p].data.agents :
         /\ result[p].data.agents[i].d = 0
         /\ result[p].data.agents[i].k = 3
         /\ result[p].data.agents[i].kd = Infinite
    /\ \E i \in DOMAIN result[p].data.maps :
         /\ result[p].data.maps[i].d = 8
         /\ result[p].data.maps[i].kd = "0.13"

--------------------------------------------------------------------------
(* The rate gate under a bounded number of callers: MaxCallers calls of
   takeToken arrive in all, at any instants and in any interleaving; time
   keeps advancing and a caller whose timer has fired is eventually run. *)

MaxCallers == 22

\* one more call of takeToken arrives
Arrive(p) ==
  /\ pc[p] = "idle"
  /\ seen < MaxCallers
  /\ seen' = seen + 1
  /\ pc' = [pc EXCEPT ![p] = "takeToken"]
  /\ cnt' = [cnt EXCEPT ![p] = NoCount]
  /\ UNCHANGED <<gateVars, stk, wakeAt, cacheVars, riotVars, apiVars, linkVars, ia>>

NextQueue == Tick \/ \E p \in Procs : Arrive(p) \/ takeToken(p)

SpecQueue == Init /\ [][NextQueue]_vars

FairQueue ==
  SpecQueue /\ WF_vars(Tick) /\ \A p \in Procs : WF_vars(takeToken(p))

\* C20: a takeToken call leaves the operation only by returning, and then it
\* has consumed exactly one token; and every pending call eventually
\* returns.
C20_EveryCallReturns ==
  /\ [][\A p \in Procs :
          (pc[p] = "takeToken" /\ pc'[p] # "takeToken")
            => /\ pc'[p] = "idle"
               /\ cnt[p].took = 0 /\ cnt'[p].took = 1
               /\ tokens' \in {tokens - 1, capacity - 1}]_vars
  /\ \A p \in Procs : (pc[p] = "takeToken") ~> (pc[p] = "idle" /\ cnt[p].took = 1)

\* C20 witness: more calls than the bucket holds have arrived; one of them
\* has returned with the first token of a new interval while another, which
\* found the bucket empty, is still pending.
C20_Witness ==
  \E p, q \in Procs :
    /\ seen = capacity + 2
    /\ pc[p] = "takeToken" /\ lastRefill = Now
    /\ pc[q] = "idle" /\ cnt[q].took = 1
    /\ taken = 1 /\ tokens = capacity - 1

(***************************************************************************)
(* The link store commands: unlink, me, setshard, setregion (lines 353 to  *)
(* 381), and the handler's outer catch (line 537).                         *)
(***************************************************************************)
\* } catch (err) { console.error('Handler error:', err); }: the exception
\* escapes the command, having sent nothing; the handler returns
EscapedIn(held, p, logs) ==
  /\ ia' = [held EXCEPT ![p].logged = @ \o logs \o <<"Handler error">>]
  /\ pc' = [pc EXCEPT ![p] = "idle"]
Escaped(p, logs) == EscapedIn(ia, p, logs)

\* a setter that stores a new object with the one field
setField_fresh(m, id, field, value, oid) ==
  MapSet([o \in {"oid"} |-> oid], field, value)
\* LINKS[id] = LINKS[id] || {}; LINKS[id][field] = value: the object of id,
\* a new one (oid) when there was none, with the field set
setField(m, id, field, value, oid) ==
  MapSet(IF id \in DOMAIN m THEN m[id] ELSE [o \in {"oid"} |-> oid],
         field, value)

\* the handlers' locals once the object obj has been changed in place: a
\* handler that holds a reference to it (const link = await ensureLink(...))
\* sees the change
Holding(obj) ==
  [q \in Procs |->
     IF ia[q].link # null /\ ia[q].link.oid = obj.oid
       THEN [ia[q] EXCEPT !.link = obj] ELSE ia[q]]

unlinkMsg(existed) ==
  IF existed THEN "Usunieto powiazanie." ELSE "Nie bylo zadnego powiazania."
meMsg(l) ==
  IF l = null
    THEN "Brak powiazanego Riot ID. Uzyj /link Nick#TAG"
    ELSE "Masz powiazane: **" \o Str(l, "gameName") \o "#"
           \o Str(l, "tagLine") \o "** - shard: " \o effectiveShard(l)
           \o " - region: " \o effectiveRegion(l)
setshardMsg(shard) == "Ustawiono shard na **" \o shard \o "**."
setregionMsg(region) == "Ustawiono region na **" \o region \o "**."

\* a command that changes LINKS to links, saves, and replies with msg; held:
\* the handlers' locals after the change
SaveAndReply(p, links, msg, held) ==
  \E ok \in BOOLEAN :
    /\ LINKS' = links
    /\ disk' = writeFileSync(ok, disk, links)
    /\ IF saveJson(ok)
         THEN SendLogIn(held, p, reply(msg), "idle", saveLog(ok))
         ELSE EscapedIn(held, p, saveLog(ok))
    /\ UNCHANGED <<gateVars, stk, wakeAt, cacheVars, cnt, riotVars, apiVars, seen>>

unlink(p) ==
  /\ pc[p] = "unlink"
  /\ SaveAndReply(p, MapDelete(LINKS, ia[p].user),
                  unlinkMsg(userLink(ia[p].user) # null), ia)

me(p) ==
  /\ pc[p] = "me"
  /\ Send(p, reply(meMsg(userLink(ia[p].user))), "idle")
  /\ UNCHANGED <<gateVars, stk, wakeAt, cacheVars, cnt, riotVars, apiVars, linkVars, seen>>

setshard(p) ==
  /\ pc[p] = "setshard"
  /\ LET obj == setField(LINKS, ia[p].user, "shard", ia[p].options.shard,
                          ia[p].n)
     IN SaveAndReply(p, MapSet(LINKS, ia[p].user, obj),
                     setshardMsg(ia[p].options.shard), Holding(obj))

setregion(p) ==
  /\ pc[p] = "setregion"
  /\ LET obj == setField(LINKS, ia[p].user, "region", ia[p].options.region,
                          ia[p].n)
     IN SaveAndReply(p, MapSet(LINKS, ia[p].user, obj),
                     setregionMsg(ia[p].options.region), Holding(obj))

\* the options link is called with: a Riot ID, and a shard and a region or
\* neither
LinkOptions ==
  {[NoOptions EXCEPT !.riot_id = id, !.shard = o[1], !.region = o[2]] :
     id \in RiotIdInputs, o \in {<<"", "">>, <<"na", "americas">>}}

NextLinks ==
  \/ LongJump
  \/ \E p \in CmdProcs, u \in Users :
       \/ \E o \in LinkOptions : Interaction(p, "link", u, o)
       \/ Interaction(p, "unlink", u, NoOptions)
       \/ Interaction(p, "me", u, NoOptions)
       \/ \E s \in Shards :
            Interaction(p, "setshard", u, [NoOptions EXCEPT !.shard = s])
       \/ \E r \in Regions :
            Interaction(p, "setregion", u, [NoOptions EXCEPT !.region = r])
  \/ \E p \in CmdProcs :
       \/ link(p)
       \/ unlink(p)
       \/ me(p)
       \/ setshard(p)
       \/ setregion(p)
       \/ RiotStep(p)

SpecLinks == Init /\ [][NextLinks]_vars

\* C18: in every reachable state every Link stored for a caller has a game
\* account name and a tag.
C18_LinkHasAccount ==
  \A u \in DOMAIN LINKS : {"gameName", "tagLine"} \subseteq DOMAIN LINKS[u]

\* the last message the handler of p has sent
LastReply(p) == ia[p].replies[Len(ia[p].replies)]

\* the normal reply of a saving command, and the mapping it leaves
C19_Reply(p) ==
  CASE ia[p].commandName = "link" ->
         editReply("Powiazano z **" \o result[p].data.gameName \o "#"
                     \o result[p].data.tagLine \o "** ("
                     \o OrElse(ia[p].options.shard, VAL_SHARD) \o " / "
                     \o OrElse(ia[p].options.region, RIOT_REGION) \o ").")
    [] ia[p].commandName = "unlink" ->
         reply(IF ia[p].user \in DOMAIN LINKS
                 THEN "Usunieto powiazanie."
                 ELSE "Nie bylo zadnego powiazania.")
    [] ia[p].commandName = "setshard" ->
         reply("Ustawiono shard na **" \o ia[p].options.shard \o "**.")
    [] ia[p].commandName = "setregion" ->
         reply("Ustawiono region na **" \o ia[p].options.region \o "**.")
C19_Changed(p) ==
  LET u == ia[p].user
  IN CASE ia[p].commandName = "link" ->
            /\ u \in DOMAIN LINKS'
            /\ LINKS'[u].gameName = result[p].data.gameName
            /\ LINKS'[u].tagLine = result[p].data.tagLine
       [] ia[p].commandName = "unlink" -> u \notin DOMAIN LINKS'
       [] ia[p].commandName = "setshard" ->
            u \in DOMAIN LINKS' /\ LINKS'[u].shard = ia[p].options.shard
       [] ia[p].commandName = "setregion" ->
            u \in DOMAIN LINKS' /\ LINKS'[u].region = ia[p].options.region

\* a write of the link store has failed in this step of p
C19_SaveFailed(p) ==
  /\ Len(ia'[p].logged) > Len(ia[p].logged)
  /\ "Save error" \in {ia'[p].logged[i] : i \in Len(ia[p].logged) + 1 .. Len(ia'[p].logged)}

\* C19: when saving the link store fails, link, unlink, setshard and
\* setregion still end with their normal reply, nothing is raised (nothing
\* reaches the outer catch), the in-memory mapping keeps the change while the
\* file keeps its old content, and me answers from the in-memory mapping.
C19_SaveFailureSwallowed ==
  [][\A p \in CmdProcs :
       /\ C19_SaveFailed(p) =>
            /\ pc'[p] = "idle"
            /\ Len(ia'[p].replies) = Len(ia[p].replies) + 1
            /\ ia'[p].replies[Len(ia'[p].replies)] = C19_Reply(p)
            /\ ia'[p].logged = ia[p].logged \o <<"Save error">>
            /\ C19_Changed(p)
            /\ disk' = disk
       /\ pc[p] = "me" /\ pc'[p] = "idle" =>
            ia'[p].replies = <<reply(meMsg(IF ia[p].user \in DOMAIN LINKS
                                              THEN LINKS[ia[p].user]
                                              ELSE null))>>]_vars

\* a save has failed (the file has no Link of the caller) and me has
\* answered with the Link that is in memory
C19_Witness ==
  \E p \in CmdProcs :
    /\ pc[p] = "idle"
    /\ ia[p].commandName = "me"
    /\ ia[p].user \in DOMAIN LINKS
    /\ ia[p].user \notin DOMAIN disk
    /\ ia[p].replies # <<>>
    /\ LastReply(p).content = meMsg(LINKS[ia[p].user])
    /\ Str(LINKS[ia[p].user], "gameName") = "Nick"

(***************************************************************************)
(* profile, agent-stats and map-stats (lines 394 to 535).                  *)
(***************************************************************************)
\* interaction.reply() on an interaction that was deferred or replied to
\* throws (discord.js: InteractionAlreadyReplied); editReply does not
CanReply(p) == ia[p].replies = <<>>
AlreadyReplied == [ok |-> FALSE, status |-> -4, data |-> null]

\* interaction.reply(m) has thrown inside the try block of a command: the
\* catch edits the deferred reply (ghost: the rejected message is recorded)
CaughtReply(p, m) ==
  /\ ia' = [ia EXCEPT ![p].rejected = Append(@, m),
                      ![p].replies =
                        Append(@, editReply("Blad: " \o errMessage(AlreadyReplied)))]
  /\ pc' = [pc EXCEPT ![p] = "idle"]
  /\ stk' = [stk EXCEPT ![p] = <<>>]

\* interaction.options.getUser('user') || interaction.user
targetOf(p) == OrElse(ia[p].options.user, ia[p].user)

\* the shard argument of the match-list and match calls: profile's local
\* shardToUse, and effectiveShard(link), evaluated at the call, in
\* agent-stats and map-stats
shardOf(p) ==
  IF ia[p].commandName = "profile" THEN ia[p].shard
                                   ELSE effectiveShard(ia[p].link)

\* the loop for (const id of matchIds){ try{ matches.push(await
\* getMatch(id, shard)) }catch(e){} }: the next call, or the end of the loop
nextMatch(p, pre, ids, matches) ==
  IF ids = <<>>
    THEN /\ ia' = [ia EXCEPT ![p].ids = ids, ![p].matches = matches]
         /\ pc' = [pc EXCEPT ![p] = pre \o "Done"]
         /\ UNCHANGED <<stk, api>>
    ELSE /\ ia' = [ia EXCEPT ![p].ids = Tail(ids), ![p].matches = matches]
         /\ api' = [api EXCEPT ![p] = [NoArgs EXCEPT !.id = Head(ids),
                                                      !.shard = shardOf(p)]]
         /\ Await(p, "getMatch", pre \o "Pushed")

\* const account = await getAccountByRiotId(...); const matchIds = await
\* getRecentMatchIdsByPuuid(account.puuid, shard, 0, count); and the loop
\* over the matches, in a command whose labels start with pre
fetchMatches(p, pre, count) ==
  \/ /\ pc[p] = pre \o "Recent"
     /\ IF ~result[p].ok
          THEN Caught(p, result[p]) /\ UNCHANGED api
        ELSE IF result[p].data = null
          THEN Caught(p, TypeError) /\ UNCHANGED api
          ELSE /\ ia' = [ia EXCEPT ![p].account = result[p].data]
               /\ api' = [api EXCEPT ![p] =
                            [NoArgs EXCEPT !.id = result[p].data.puuid,
                                           !.shard = shardOf(p),
                                           !.start = 0, !.count = count]]
               /\ Await(p, "getRecentMatchIds", pre \o "Loop")
     /\ UNCHANGED <<gateVars, wakeAt, cacheVars, cnt, riotVars, fetched, linkVars, seen>>
  \/ /\ pc[p] = pre \o "Loop"
     /\ IF ~result[p].ok
          THEN Caught(p, result[p]) /\ UNCHANGED api
          ELSE nextMatch(p, pre, result[p].data.items, <<>>)
     /\ UNCHANGED <<gateVars, wakeAt, cacheVars, cnt, riotVars, fetched, linkVars, seen>>
  \/ /\ pc[p] = pre \o "Pushed"
     /\ nextMatch(p, pre, ia[p].ids,
                  IF result[p].ok THEN Append(ia[p].matches, result[p].data)
                                  ELSE ia[p].matches)
     /\ UNCHANGED <<gateVars, wakeAt, cacheVars, cnt, riotVars, fetched, linkVars, seen>>

\* a match record of the list is null: m.matchInfo throws a TypeError
HasNull(matches) == \E i \in DOMAIN matches : matches[i] = null

\* buildProfileEmbed, lines 201-232: title, description, fields and the
\* number of lines of the last matches
buildProfileEmbed(account, summary, matches, targetUser, shard) ==
  [title |-> "Valorant - " \o account.gameName \o "#" \o account.tagLine,
   description |-> "Podsumowanie (" \o ToString(summary.total) \o " gier"
                     \o (IF summary.total # 0
                           THEN " - wygrane: " \o ToString(summary.wins)
                           ELSE "")
                     \o ") dla " \o targetUser,
   KDA |-> ToString(summary.k) \o "/" \o ToString(summary.d) \o "/"
             \o ToString(summary.a) \o " (K/D " \o summary.kd \o ")",
   Shard |-> shard,
   lines |-> Len(slice(matches, 0, 5))]

\* userMention(id)
userMention(id) == "<@" \o id \o ">"

\* profile, lines 394-422
profile(p) ==
  \/ /\ pc[p] = "profile"
     /\ Send(p, deferReply(FALSE), "pfResolve")
     /\ UNCHANGED <<gateVars, stk, wakeAt, cacheVars, cnt, riotVars, apiVars, linkVars, seen>>
  \/ /\ pc[p] = "pfResolve"
     /\ LET lnk == userLink(targetOf(p))
            parsed == parseRiotId(ia[p].options.riot_id)
        IN IF ia[p].options.riot_id # <<>>
             THEN IF ~parsed.ok
                    THEN Caught(p, parsed) /\ UNCHANGED rr
                    ELSE /\ ia' = [ia EXCEPT
                                     ![p].region = OrElse(effectiveRegion(lnk),
                                                          effectiveRegion(null)),
                                     ![p].shard = OrElse(effectiveShard(lnk),
                                                         effectiveShard(null))]
                         /\ riotRequest(p, accountUrl(ia'[p].region,
                                                      parsed.data.gameName,
                                                      parsed.data.tagLine),
                                        defaultRetry, <<"pfRecent">>)
           ELSE IF lnk = null
             THEN /\ IF CanReply(p)
                       THEN Send(p, reply(notLinkedMsg(targetOf(p), ia[p].user)),
                                 "idle") /\ UNCHANGED stk
                       ELSE CaughtReply(p, reply(notLinkedMsg(targetOf(p),
                                                              ia[p].user)))
                  /\ UNCHANGED rr
             ELSE /\ ia' = [ia EXCEPT ![p].link = lnk,
                                      ![p].region = effectiveRegion(lnk),
                                      ![p].shard = effectiveShard(lnk)]
                  /\ riotRequest(p, accountUrl(effectiveRegion(lnk),
                                               Str(lnk, "gameName"),
                                               Str(lnk, "tagLine")),
                                 defaultRetry, <<"pfRecent">>)
     /\ UNCHANGED <<gateVars, wakeAt, cacheVars, cnt, result, apiVars, linkVars, seen>>
  \/ fetchMatches(p, "pf", 10)
  \/ /\ pc[p] = "pfDone"
     /\ IF HasNull(ia[p].matches)
          THEN Caught(p, TypeError)
          ELSE /\ ia' = [ia EXCEPT ![p].static =
                           aggregateRecentStats(ia[p].account.puuid,
                                                ia[p].matches,
                                                modeFilterOf(ia[p].options.queue))]
               /\ Await(p, "getAgents", "pfMaps")
     /\ UNCHANGED <<gateVars, wakeAt, cacheVars, cnt, riotVars, apiVars, linkVars, seen>>
  \/ /\ pc[p] = "pfMaps"
     /\ IF ~result[p].ok
          THEN Caught(p, result[p])
          ELSE Await(p, "getMaps", "pfEmbed") /\ UNCHANGED ia
     /\ UNCHANGED <<gateVars, wakeAt, cacheVars, cnt, riotVars, apiVars, linkVars, seen>>
  \/ /\ pc[p] = "pfEmbed"
     /\ IF ~result[p].ok
          THEN Caught(p, result[p])
          ELSE /\ Send(p, editReplyEmbed(
                            buildProfileEmbed(ia[p].account, ia[p].static,
                                              ia[p].matches,
                                              userMention(targetOf(p)),
                                              ia[p].shard)),
                       "idle")
               /\ UNCHANGED stk
     /\ UNCHANGED <<gateVars, wakeAt, cacheVars, cnt, riotVars, apiVars, linkVars, seen>>

\* const link = await ensureLink(target); if (!link) return;
\* await interaction.deferReply(); and the first call of the try block
ensureLinkThen(p, fn, cont) ==
  LET lnk == userLink(targetOf(p))
  IN IF lnk = null
       THEN IF CanReply(p)
              THEN Send(p, reply(notLinkedMsg(targetOf(p), ia[p].user)), "idle")
                     /\ UNCHANGED stk
              ELSE Escaped(p, <<>>) /\ UNCHANGED stk
       ELSE /\ ia' = [ia EXCEPT ![p].link = lnk,
                                ![p].region = effectiveRegion(lnk),
                                ![p].shard = effectiveShard(lnk),
                                ![p].replies = Append(@, deferReply(FALSE))]
            /\ Await(p, fn, cont)

\* the account request of agent-stats and map-stats, lines 455 and 502
accountOfLink(p, cont) ==
  riotRequest(p, accountUrl(effectiveRegion(ia[p].link),
                            Str(ia[p].link, "gameName"),
                            Str(ia[p].link, "tagLine")),
              defaultRetry, cont)

\* title, description and the first five lines of the list
buildStatsEmbed(title, account, description, list) ==
  [title |-> title \o account.gameName \o "#" \o account.tagLine,
   description |-> description,
   lines |-> slice(list, 0, 5)]

\* if (agentQuery){ ...; if (!agentUuidFilter) return interaction.editReply(
\* 'Nie znam takiego agenta.') } (and lines 498-500 of map-stats)
unknownEntity_never(query, filter) == FALSE
unknownEntity(query, filter) == query # "" /\ filter = ""

\* agent-stats, lines 439-488
agentStats(p) ==
  \/ /\ pc[p] = "agent-stats"
     /\ ensureLinkThen(p, "getAgents", "asFilter")
     /\ UNCHANGED <<gateVars, wakeAt, cacheVars, cnt, riotVars, apiVars, linkVars, seen>>
  \/ /\ pc[p] = "asFilter"
     /\ LET agents == result[p].data
            agentQuery == toLowerCase(ia[p].options.agent)
            found == agentQuery \in DOMAIN agents.m
            agentUuidFilter ==
              IF found THEN toLowerCase(Opt(agents.m[agentQuery], "uuid", ""))
                       ELSE ""
        IN IF ~result[p].ok
             THEN Caught(p, result[p]) /\ UNCHANGED rr
           ELSE IF unknownEntity(agentQuery, agentUuidFilter)
             THEN /\ Send(p, editReply("Nie znam takiego agenta."), "idle")
                  /\ UNCHANGED <<stk, rr>>
             ELSE /\ ia' = [ia EXCEPT
                              ![p].static = agents,
                              ![p].filter = agentUuidFilter,
                              ![p].display =
                                IF found /\ agentQuery # ""
                                  THEN agents.m[agentQuery].displayName ELSE ""]
                  /\ accountOfLink(p, <<"asRecent">>)
     /\ UNCHANGED <<gateVars, wakeAt, cacheVars, cnt, result, apiVars, linkVars, seen>>
  \/ fetchMatches(p, "as", 20)
  \/ /\ pc[p] = "asDone"
     /\ LET tally == agentTally(<<>>, ia[p].matches, ia[p].account.puuid,
                                modeFilterOf(ia[p].options.queue), ia[p].filter)
        IN IF HasNull(ia[p].matches)
             THEN Caught(p, TypeError)
           ELSE IF tally = <<>>
             THEN Send(p, editReply("Brak danych dla tego filtra."), "idle")
                    /\ UNCHANGED stk
             ELSE Send(p, editReplyEmbed(
                            buildStatsEmbed("Agent stats - ", ia[p].account,
                                            IF ia[p].display # ""
                                              THEN "Agent: " \o ia[p].display
                                              ELSE "Top agenci",
                                            agentList(tally, ia[p].static))),
                       "idle") /\ UNCHANGED stk
     /\ UNCHANGED <<gateVars, wakeAt, cacheVars, cnt, riotVars, apiVars, linkVars, seen>>

\* map-stats, lines 490-535
mapStats(p) ==
  \/ /\ pc[p] = "map-stats"
     /\ ensureLinkThen(p, "getMaps", "msFilter")
     /\ UNCHANGED <<gateVars, wakeAt, cacheVars, cnt, riotVars, apiVars, linkVars, seen>>
  \/ /\ pc[p] = "msFilter"
     /\ LET maps == result[p].data
            mapQuery == toLowerCase(ia[p].options.map)
            hits == {k \in DOMAIN maps.m :
                       toLowerCase(Opt(maps.m[k], "displayName", "")) = mapQuery}
            \* the first hit in the Map's order; the keys are distinct tails
            hit == CHOOSE k \in hits : TRUE
            mapTailFilter ==
              IF hits # {}
                THEN toLowerCase(urlTail(Opt(maps.m[hit], "mapUrl", "")))
                ELSE ""
        IN IF ~result[p].ok
             THEN Caught(p, result[p]) /\ UNCHANGED rr
           ELSE IF unknownEntity(mapQuery, mapTailFilter)
             THEN /\ Send(p, editReply("Nie znam takiej mapy."), "idle")
                  /\ UNCHANGED <<stk, rr>>
             ELSE /\ ia' = [ia EXCEPT
                              ![p].static = maps,
                              ![p].filter = IF mapQuery # "" THEN mapTailFilter
                                                             ELSE "",
                              ![p].display =
                                IF mapQuery # "" THEN maps.m[hit].displayName
                                                 ELSE ""]
                  /\ accountOfLink(p, <<"msRecent">>)
     /\ UNCHANGED <<gateVars, wakeAt, cacheVars, cnt, result, apiVars, linkVars, seen>>
  \/ fetchMatches(p, "ms", 20)
  \/ /\ pc[p] = "msDone"
     /\ LET tally == mapTally(<<>>, ia[p].matches, ia[p].account.puuid,
                              modeFilterOf(ia[p].options.queue), ia[p].filter)
        IN IF HasNull(ia[p].matches)
             THEN Caught(p, TypeError)
           ELSE IF tally = <<>>
             THEN Send(p, editReply("Brak danych dla tego filtra."), "idle")
                    /\ UNCHANGED stk
             ELSE Send(p, editReplyEmbed(
                            buildStatsEmbed("Map stats - ", ia[p].account,
                                            IF ia[p].display # ""
                                              THEN "Mapa: " \o ia[p].display
                                              ELSE "Top mapy",
                                            mapList(tally, ia[p].static))),
                       "idle") /\ UNCHANGED stk
     /\ UNCHANGED <<gateVars, wakeAt, cacheVars, cnt, riotVars, apiVars, linkVars, seen>>

\* a Link an earlier run has stored, and the files a run may start with
StoredLink == [gameName |-> "Nick", tagLine |-> "TAG", shard |-> "na",
               region |-> "americas", oid |-> 0]
LinkFiles == {EmptyMap, [u \in {"ua"} |-> StoredLink]}
InitStored == \E links \in LinkFiles : Started(links)

\* the user option: absent, or another user
Targets == {"", "ub"}

\* the number of commands of a run of profile, agent-stats or map-stats
MaxCommands == 1
\* one of at most MaxCommands interactions
Command(p, commandName, userId, options) ==
  /\ seen < MaxCommands
  /\ Interaction(p, commandName, userId, options)

\* time passes while a request waits for its retry (line 104)
Sleep ==
  /\ \E p \in CmdProcs : pc[p] = "retryWait" /\ wakeAt[p] > Now
  /\ LongJump

\* the account, match-list and match calls the commands await
ApiStep(p) ==
  \/ RiotStep(p)
  \/ getRecentMatchIdsByPuuid(p)
  \/ getMatch(p)

NextProfile ==
  \/ Sleep
  \/ \E p \in CmdProcs, u \in Users, t \in Targets,
        id \in {<<>>} \cup RiotIdInputs :
       Command(p, "profile", u, [NoOptions EXCEPT !.user = t, !.riot_id = id])
  \/ \E p \in CmdProcs : profile(p) \/ ApiStep(p) \/ getAgents(p) \/ getMaps(p)

SpecProfile == InitStored /\ [][NextProfile]_vars

NextAgentStats ==
  \/ Sleep
  \/ \E p \in CmdProcs, u \in Users, t \in Targets, a \in {"", "JETT", "nope"} :
       Command(p, "agent-stats", u, [NoOptions EXCEPT !.user = t, !.agent = a])
  \/ \E p \in CmdProcs : agentStats(p) \/ ApiStep(p) \/ getAgents(p)

SpecAgentStats == InitStored /\ [][NextAgentStats]_vars

NextMapStats ==
  \/ Sleep
  \/ \E p \in CmdProcs, u \in Users, t \in Targets, m \in {"", "Bind", "nope"} :
       Command(p, "map-stats", u, [NoOptions EXCEPT !.user = t, !.map = m])
  \/ \E p \in CmdProcs : mapStats(p) \/ ApiStep(p) \/ getMaps(p)

SpecMapStats == InitStored /\ [][NextMapStats]_vars

\* C11: when the target of profile, lastmatch, agent-stats or map-stats has
\* no Link and no inline Riot ID is given, the handler ends having reported
\* the not-linked condition (in the self or the other-user wording), having
\* sent no request to the account/match API, and with no exception escaped.
C11_NotLinkedReported ==
  \A p \in CmdProcs :
    (/\ pc[p] = "idle"
     /\ ia[p].commandName \in {"profile", "lastmatch", "agent-stats", "map-stats"}
     /\ ia[p].options.riot_id = <<>>
     /\ userLink(targetOf(p)) = null)
    => /\ ia[p].replies # <<>>
       /\ LastReply(p).content =
            (IF targetOf(p) = ia[p].user
               THEN "Nie masz powiazanego Riot ID. Uzyj /link Nick#TAG"
               ELSE "<@" \o targetOf(p) \o "> nie ma powiazanego Riot ID.")
       /\ cnt[p].sent = 0
       /\ "Handler error" \notin {ia[p].logged[i] : i \in DOMAIN ia[p].logged}

\* the value the precedence names: the command's option if given, else the
\* Link's value if present, else the process default
C12_Resolved(option, lnk, field, dflt) ==
  IF option # "" THEN option
  ELSE IF lnk # null /\ field \in DOMAIN lnk /\ lnk[field] # "" THEN lnk[field]
  ELSE dflt

\* C12: link, profile, agent-stats and map-stats resolve the shard and the
\* region by the precedence option, then Link value, then process default,
\* and the resolved value is never empty: link stores the resolved pair,
\* and the other commands route their requests by it.
C12_Precedence ==
  [][\A p \in CmdProcs :
       LET u == ia[p].user
       IN /\ (/\ pc[p] = "linkStore" /\ pc'[p] = "idle"
              /\ result[p].ok /\ result[p].data # null)
               => /\ LINKS'[u].shard =
                       C12_Resolved(ia[p].options.shard, userLink(u), "shard",
                                    VAL_SHARD)
                  /\ LINKS'[u].region =
                       C12_Resolved(ia[p].options.region, userLink(u), "region",
                                    RIOT_REGION)
          /\ (pc[p] \in {"pfResolve", "agent-stats", "map-stats"}
              /\ ia'[p].shard # ia[p].shard)
               => /\ ia'[p].shard =
                       C12_Resolved("", userLink(targetOf(p)), "shard", VAL_SHARD)
                  /\ ia'[p].region =
                       C12_Resolved("", userLink(targetOf(p)), "region",
                                    RIOT_REGION)]_vars

\* the labels at which a command receives the outcome of a call it awaited,
\* those of the match loops apart
C17_Receiving ==
  {"linkStore", "lmRecent", "lmMatch", "lmAgents", "lmMaps", "lmEmbed",
   "pfRecent", "pfLoop", "pfMaps", "pfEmbed",
   "asFilter", "asRecent", "asLoop", "msFilter", "msRecent", "msLoop"}
\* the labels at which a command receives the outcome of a getMatch call of
\* its loop
C17_InLoop == {"pfPushed", "asPushed", "msPushed"}
\* the failure the step of p has to deal with: a Riot ID that does not
\* parse, or an awaited call that has failed
C17_Failure(p, labels) ==
  IF /\ pc[p] \in {"linkParse", "pfResolve"}
     /\ ia[p].options.riot_id # <<>>
     /\ ~parseRiotId(ia[p].options.riot_id).ok
    THEN parseRiotId(ia[p].options.riot_id)
  ELSE IF pc[p] \in labels /\ ~result[p].ok
    THEN result[p]
    ELSE null
\* the step of p ends the command with its error message for e
C17_Reported(p, e) ==
  /\ pc'[p] = "idle"
  /\ ia'[p].replies =
       Append(ia[p].replies,
              editReply((IF ia[p].commandName = "link"
                           THEN "Nie udalo sie powiazac: " ELSE "Blad: ")
                        \o errMessage(e)))
  /\ ia'[p].logged = ia[p].logged

\* C17: every upstream failure and every parse failure raised by a step of
\* link, profile, lastmatch, agent-stats or map-stats ends with the handler
\* sending the command's error message; nothing reaches the outer catch.
C17_FailuresReported ==
  [][\A p \in CmdProcs :
       LET e == C17_Failure(p, C17_Receiving \cup C17_InLoop)
       IN (e # null /\ pc'[p] # pc[p]) => C17_Reported(p, e)]_vars

(***************************************************************************)
(* The token count under interleaved callers.                              *)
(***************************************************************************)
\* the callers that return from takeToken in a step
C21_Returning == {p \in Procs : pc[p] = "takeToken" /\ pc'[p] # "takeToken"}

\* C21: under any interleaving of the callers at their suspension points
\* 0 <= tokens <= capacity holds in every reachable state, and a returning
\* takeToken call lowers the count by exactly 1, from capacity when the call
\* has refilled the bucket: at most one caller returns in a step, and a step
\* in which none returns does not lower the count.
C21_TokensInRange ==
  /\ [](0 <= tokens /\ tokens <= capacity)
  /\ [][/\ Cardinality(C21_Returning) <= 1
        /\ \A p \in C21_Returning :
             /\ tokens' = (IF RefillDue(Now - lastRefill) THEN capacity
                                                          ELSE tokens) - 1
             /\ cnt'[p].took = cnt[p].took + 1
        /\ C21_Returning = {} => tokens' >= tokens]_vars

\* two callers have both returned within one refill interval, each with a
\* token of its own
C21_Witness ==
  /\ cnt["p1"].took = 1
  /\ cnt["p2"].took = 1
  /\ pc["p1"] = "idle"
  /\ pc["p2"] = "idle"
  /\ taken = 2
  /\ tokens = capacity - 2

(***************************************************************************)
(* The number of takeToken calls that return in a time window.             *)
(***************************************************************************)
\* an observer starts a time window of length refillMs at the present
\* instant; the calls that return in it are counted by takeToken
Observe ==
  /\ window = NoWindow
  /\ window' = [age |-> 0, n |-> 0]
  /\ UNCHANGED <<tokens, lastRefill, taken, procVars, cacheVars, cnt, riotVars,
                 apiVars, cmdVars>>

\* the caller of the observed runs: it calls takeToken again and again
WindowProcs == {"p1"}

NextWindow == Tick \/ Observe \/ \E p \in WindowProcs : Arrive(p) \/ takeToken(p)

SpecWindow == Init /\ [][NextWindow]_vars

\* C22: in a time window of length refillMs, whatever its start instant, at
\* most capacity takeToken calls return.
C22_AtMostCapacityPerWindow == window.n <= capacity

(***************************************************************************)
(* A command interleaved with a change of its target's Link.               *)
(***************************************************************************)
\* the handler that changes the Link while a command of CmdProcs runs
OtherProcs == {"p2"}

\* the one interaction of the other handler
Interfere(p, commandName, userId, options) ==
  /\ ia[p] = NoInteraction
  /\ Interaction(p, commandName, userId, options)

\* time passes while a request of either handler waits for its retry
SleepAny ==
  /\ \E p \in Procs : pc[p] = "retryWait" /\ wakeAt[p] > Now
  /\ LongJump

NextShard ==
  \/ SleepAny
  \/ \E p \in CmdProcs, u \in Users : Command(p, "lastmatch", u, NoOptions)
  \/ \E p \in OtherProcs, u \in Users :
       \/ \E s \in Shards :
            Interfere(p, "setshard", u, [NoOptions EXCEPT !.shard = s])
       \/ Interfere(p, "unlink", u, NoOptions)
       \/ \E o \in LinkOptions : Interfere(p, "link", u, o)
  \/ \E p \in CmdProcs : lastmatch(p) \/ ApiStep(p) \/ getAgents(p) \/ getMaps(p)
  \/ \E p \in OtherProcs : setshard(p) \/ unlink(p) \/ link(p) \/ RiotStep(p)

SpecShard == InitStored /\ [][NextShard]_vars

\* C23: within one execution of lastmatch, agent-stats, map-stats or
\* profile the match-id list and every match detail are requested from the
\* shard that was in effect when the command started.
C23_OneShardPerCommand ==
  \A p \in CmdProcs :
    (/\ ia[p].commandName \in {"profile", "lastmatch", "agent-stats", "map-stats"}
     /\ pc[p] # "idle"
     /\ api[p].shard # "")
    => api[p].shard = ia[p].shard0

\* the messages of an interaction follow the protocol: none yet, or one
\* immediate reply, or one deferred acknowledgement followed only by edits
C24_Protocol(replies) ==
  \/ replies = <<>>
  \/ replies[1].op = "reply" /\ Len(replies) = 1
  \/ /\ replies[1].op = "deferReply"
     /\ \A i \in 2 .. Len(replies) : replies[i].op = "editReply"

\* C24: every handled command follows the reply protocol, and no handler
\* path issues an immediate reply on an interaction it has already deferred.
C24_ReplyProtocol ==
  \A p \in CmdProcs :
    /\ C24_Protocol(ia[p].replies)
    /\ ia[p].rejected = <<>>

(***************************************************************************)
(* The frame of unlink, setshard and setregion, with two callers.          *)
(***************************************************************************)
FrameUsers == {"ua", "ub"}
OtherLink == [gameName |-> "Sova", tagLine |-> "EUW", shard |-> "eu",
              region |-> "europe", oid |-> -1]
FrameFiles ==
  {EmptyMap,
   [u \in {"ua"} |-> StoredLink],
   [u \in FrameUsers |-> IF u = "ua" THEN StoredLink ELSE OtherLink]}
InitFrame == \E links \in FrameFiles : Started(links)

NextFrame ==
  \/ \E p \in CmdProcs, u \in FrameUsers :
       \/ Interaction(p, "unlink", u, NoOptions)
       \/ \E s \in Shards :
            Interaction(p, "setshard", u, [NoOptions EXCEPT !.shard = s])
       \/ \E r \in Regions :
            Interaction(p, "setregion", u, [NoOptions EXCEPT !.region = r])
  \/ \E p \in CmdProcs : unlink(p) \/ setshard(p) \/ setregion(p)

SpecFrame == InitFrame /\ [][NextFrame]_vars

\* the Links of the callers other than u are the same before and after
C25_OthersKept(u) ==
  \A v \in (DOMAIN LINKS \cup DOMAIN LINKS') \ {u} :
    v \in DOMAIN LINKS /\ v \in DOMAIN LINKS' /\ LINKS'[v] = LINKS[v]
\* the Link of u has the field set to value and all its other fields as
\* before (a Link made by the step has no other field but its identity)
C25_OnlyField(u, field, value) ==
  /\ u \in DOMAIN LINKS'
  /\ LINKS'[u][field] = value
  /\ LET old == IF u \in DOMAIN LINKS THEN LINKS[u]
                                      ELSE [o \in {"oid"} |-> LINKS'[u].oid]
     IN \A f \in (DOMAIN old \cup DOMAIN LINKS'[u]) \ {field} :
          f \in DOMAIN old /\ f \in DOMAIN LINKS'[u] /\ LINKS'[u][f] = old[f]

\* C25: setshard changes only the shard field and setregion only the
\* region field of the caller's Link, every other field of it and every
\* other caller's Link being unchanged; unlink removes only the caller's
\* Link.
C25_FrameOfLinkCommands ==
  [][\A p \in CmdProcs :
       (pc[p] \in {"setshard", "setregion", "unlink"} /\ pc'[p] = "idle")
         => /\ C25_OthersKept(ia[p].user)
            /\ pc[p] = "setshard"
                 => C25_OnlyField(ia[p].user, "shard", ia[p].options.shard)
            /\ pc[p] = "setregion"
                 => C25_OnlyField(ia[p].user, "region", ia[p].options.region)
            /\ pc[p] = "unlink" => ia[p].user \notin DOMAIN LINKS']_vars

\* setshard of one caller has changed the shard of their Link; its other
\* fields and the other caller's Link are as they were stored
C25_Witness ==
  \E p \in CmdProcs :
    /\ pc[p] = "idle"
    /\ ia[p].commandName = "setshard"
    /\ ia[p].user = "ua"
    /\ ia[p].replies # <<>>
    /\ seen = 1
    /\ LINKS = [u \in FrameUsers |->
                  IF u = "ua" THEN [StoredLink EXCEPT !.shard = "eu"]
                              ELSE OtherLink]

(***************************************************************************)
(* agent-stats and map-stats with a filter the roster does not know.       *)
(***************************************************************************)
NextStats ==
  \/ Sleep
  \/ \E p \in CmdProcs, u \in Users, t \in Targets :
       \/ \E a \in {"", "JETT", "nope"} :
            Command(p, "agent-stats", u,
                    [NoOptions EXCEPT !.user = t, !.agent = a])
       \/ \E m \in {"", "Bind", "nope"} :
            Command(p, "map-stats", u, [NoOptions EXCEPT !.user = t, !.map = m])
  \/ \E p \in CmdProcs :
       agentStats(p) \/ mapStats(p) \/ ApiStep(p) \/ getAgents(p) \/ getMaps(p)

SpecStats == InitStored /\ [][NextStats]_vars

\* the filter of the command p handles, and whether a display name of the
\* roster it has just received equals it, letter case apart
C26_Query(p) ==
  IF pc[p] = "asFilter" THEN ia[p].options.agent ELSE ia[p].options.map
C26_Known(p) ==
  \E k \in DOMAIN result[p].data.m :
    toLowerCase(Opt(result[p].data.m[k], "displayName", ""))
      = toLowerCase(C26_Query(p))

\* C26: in agent-stats and map-stats, when the roster has been obtained and
\* the non-empty filter equals no display name of it (letter case apart),
\* the command ends with the unknown-entity message, having sent no request
\* to the account/match API and consumed no token.
C26_UnknownEntity ==
  [][\A p \in CmdProcs :
       (/\ pc[p] \in {"asFilter", "msFilter"} /\ pc'[p] # pc[p]
        /\ result[p].ok
        /\ C26_Query(p) # ""
        /\ ~C26_Known(p))
       => /\ pc'[p] = "idle"
          /\ ia'[p].replies =
               Append(ia[p].replies,
                      editReply(IF pc[p] = "asFilter"
                                  THEN "Nie znam takiego agenta."
                                  ELSE "Nie znam takiej mapy."))
          /\ cnt'[p].sent = 0 /\ cnt'[p].took = 0
          /\ tokens' = tokens /\ taken' = taken]_vars

\* agent-stats with a filter no agent of the loaded roster is called has
\* ended with the unknown-entity message and all tokens in the bucket
C26_Witness ==
  \E p \in CmdProcs :
    /\ pc[p] = "idle"
    /\ ia[p].commandName = "agent-stats"
    /\ ia[p].options.agent = "nope"
    /\ ia[p].link # null
    /\ result[p].ok /\ result[p].data # null
    /\ DOMAIN result[p].data.m # {}
    /\ ia[p].replies # <<>>
    /\ LastReply(p).content = "Nie znam takiego agenta."
    /\ cnt[p].took = 0
    /\ tokens = capacity

====
